---- MODULE Spec2Model ----
(***************************************************************************)
(* A model of the ChoiceScript flow-graph builder                          *)
(* (src/claude/statemachine.ts, class ChoiceScriptStateMachine).           *)
(*                                                                         *)
(* A script line is a record [ind, kind, command, args]:                   *)
(*   ind      the number of leading tabs of the line (one tab = one        *)
(*            level, so indentSize = 1 and the indent level is ind);       *)
(*   kind     "command" (trimmed line starts with '*'), "option" (starts   *)
(*            with '#'), "text" (any other non-blank line), "blank";       *)
(*   command  the word after '*' (parseCommand), "" otherwise;             *)
(*   args     the rest of the trimmed line.                                *)
(* Node ids node_1, node_2, ... are the naturals 1, 2, ...; Null (0) is    *)
(* the null currentNode and EmptyId (-1) the empty string ''.              *)
(***************************************************************************)
EXTENDS Integers, Sequences, FiniteSets, TLC

\* ------------------------------------------------------------------ bounds
MaxLines == 3          \* lines of script revealed in one build (SpecAll)
MaxCondLines == 4      \* the same, for SpecCond
MaxFlowLines == 4      \* the same, for SpecFlow
MaxChoiceLines == 5    \* the same, for SpecChoice
MaxSceneLines == 4     \* the same, for SpecScenes
MaxCallLines == 2      \* the same, for SpecCalls
MaxVarLines == 2       \* the same, for SpecVars
MaxPrefixLines == 3    \* the same, for SpecPrefix
MaxScanLines == 3      \* lines of a scene given to scanScene (SpecScan)
MaxOperators == 3      \* binary operators of an expression given to the parser (SpecExpr)
MaxParseLines == 4     \* lines of a scene whose tokens the parser is given (SpecParse)
MaxExprLen == 3        \* characters of an expression given to the tokenizer (SpecLex)
MaxFlowLen == 2        \* tokens of the flow of a scene (SpecWalk)
MaxPipeLines == 2      \* lines of a scene that is scanned and then parsed (SpecPipe)
MaxNestLines == 5      \* lines of the script with nested choices (SpecNest)
MaxJumpLines == 5      \* lines of the scenes with labels and jumps, in all (SpecJumps)
MaxAnalysisLines == 4  \* lines of the script whose graph is analysed (SpecAnalysis)
MaxCalls == 2          \* processScene calls made by callers other than processGame

Null == 0
EmptyId == -1

READING_TEXT == "READING_TEXT"
COMMAND == "COMMAND"
CHOICE_BLOCK == "CHOICE_BLOCK"
CONDITIONAL == "CONDITIONAL"
SUBROUTINE == "SUBROUTINE"
SCENE_LIST == "SCENE_LIST"

NL == "\n"

\* ------------------------------------------------------------ script lines
Cmd(ind, command, args) ==
    [ind |-> ind, kind |-> "command", command |-> command, args |-> args]
Txt(ind, text) == [ind |-> ind, kind |-> "text", command |-> "", args |-> text]
Opt(ind, text) == [ind |-> ind, kind |-> "option", command |-> "", args |-> text]
Blank == [ind |-> 0, kind |-> "blank", command |-> "", args |-> ""]

\* line.trim(): the leading whitespace is gone
trim(line) == [line EXCEPT !.ind = 0]

\* ------------------------------------------------------------------- maps
MapGet(map, key) == IF key \in DOMAIN map THEN map[key] ELSE Null
MapSet(map, key, val) == (key :> val) @@ map
EmptyMap == [k \in {} |-> Null]

\* ------------------------------------------------------------ graph pieces
NoAttr ==
    [text |-> <<>>, sceneName |-> "", labelName |-> "", condition |-> "",
     scenes |-> <<>>, options |-> <<>>, isFake |-> FALSE,
     command |-> "", variableName |-> <<>>, initialValue |-> <<>>,
     dataType |-> "", value |-> <<>>, operation |-> "", isFairmath |-> FALSE]

NoEdgeAttr == [condition |-> "", isSelectable |-> FALSE, statChanges |-> <<>>]

\* the state of a machine after its constructor, and after resetState
resetState ==
    [currentState |-> READING_TEXT,
     position |-> [file |-> "", line |-> 0],
     currentNode |-> Null,
     textBuffer |-> <<>>,
     choiceNodeStack |-> <<>>,
     conditionalStack |-> <<>>,
     subroutineStack |-> <<>>,
     currentIndentLevel |-> 0,
     expectedIndentLevel |-> 0,
     commandRequiringIndent |-> FALSE,
     nodes |-> <<>>,
     edges |-> <<>>,
     entryPoints |-> EmptyMap,
     labels |-> EmptyMap,
     nodeIdCounter |-> 0,
     processedScenes |-> {},
     variables |-> EmptyMap,
     metadataVariables |-> EmptyMap,
     thrown |-> FALSE]

\* createNode: the machine with the new node; its id is NewId(m)
NewId(m) == m.nodeIdCounter + 1

createNode(m, type, attributes) ==
    [m EXCEPT !.nodeIdCounter = NewId(m),
              !.nodes = Append(@,
                  [id |-> NewId(m), type |-> type, attributes |-> attributes,
                   position |-> m.position])]

addEdge(m, sourceId, targetId, attributes) ==
    [m EXCEPT !.edges = Append(@,
        [source |-> sourceId, target |-> targetId, attributes |-> attributes,
         position |-> m.position])]

\* if (this.currentNode) addEdge(this.currentNode, targetId, attributes)
addEdgeFromCurrent(m, targetId, attributes) ==
    IF m.currentNode # Null /\ m.currentNode # EmptyId
    THEN addEdge(m, m.currentNode, targetId, attributes)
    ELSE m

\* textBuffer.trim().length > 0
NonBlank(buf) == \E i \in 1..Len(buf) : buf[i] # NL

flushTextBuffer(m) ==
    IF NonBlank(m.textBuffer)
    THEN LET m1 == createNode(m, "text", [NoAttr EXCEPT !.text = m.textBuffer])
             m2 == addEdgeFromCurrent(m1, NewId(m), NoEdgeAttr)
         IN [m2 EXCEPT !.currentNode = NewId(m), !.textBuffer = <<>>]
    ELSE [m EXCEPT !.textBuffer = <<>>]

\* textBuffer += '\n' when non-empty, then += trimmedLine
appendText(m, text) ==
    [m EXCEPT !.textBuffer =
        (IF Len(@) > 0 THEN Append(@, NL) ELSE @) \o <<text>>]

throw(m) == [m EXCEPT !.thrown = TRUE]

expectIndent(m) ==
    [m EXCEPT !.commandRequiringIndent = TRUE,
              !.expectedIndentLevel = m.currentIndentLevel + 1]

\* ------------------------------------------------------------ the handlers
\* Every handler takes the machine and returns the machine after the call; a
\* handler that throws returns the machine as it was at the throw, thrown set.

startChoiceBlock(m, isFake) ==
    LET m0 == [flushTextBuffer(m) EXCEPT !.currentState = CHOICE_BLOCK]
        choiceNodeId == NewId(m0)
        m1 == createNode(m0, "choice", [NoAttr EXCEPT !.isFake = isFake])
        m2 == addEdgeFromCurrent(m1, choiceNodeId, NoEdgeAttr)
    IN expectIndent([m2 EXCEPT !.currentNode = choiceNodeId,
                               !.choiceNodeStack = Append(@, choiceNodeId)])

processChoiceOption(m, optionText) ==
    LET optionNodeId == NewId(m)
        m1 == createNode(m, "option", [NoAttr EXCEPT !.text = <<optionText>>])
    IN IF Len(m1.choiceNodeStack) = 0
       THEN throw(m1)
       ELSE LET currentChoiceNodeId == m1.choiceNodeStack[Len(m1.choiceNodeStack)]
                m2 == [m1 EXCEPT !.nodes[currentChoiceNodeId].attributes.options =
                                      Append(@, optionNodeId)]
                m3 == addEdge(m2, currentChoiceNodeId, optionNodeId, NoEdgeAttr)
            IN expectIndent([m3 EXCEPT !.currentNode = optionNodeId])

startConditional(m, condition) ==
    LET m0 == flushTextBuffer(m)
        condNodeId == NewId(m0)
        m1 == [m0 EXCEPT !.conditionalStack = Append(@,
                   [condition |-> condition,
                    nodeBeforeIf |-> IF m0.currentNode = Null THEN EmptyId
                                     ELSE m0.currentNode,
                    branchEndNodes |-> <<>>]),
                         !.currentState = CONDITIONAL]
        m2 == createNode(m1, "conditional", [NoAttr EXCEPT !.condition = condition])
        m3 == addEdgeFromCurrent(m2, condNodeId,
                                 [NoEdgeAttr EXCEPT !.condition = condition])
    IN expectIndent([m3 EXCEPT !.currentNode = condNodeId])

\* if (this.currentNode) ifState.branchEndNodes.push(this.currentNode)
pushBranchEnd(m) ==
    IF m.currentNode # Null /\ m.currentNode # EmptyId
    THEN [m EXCEPT !.conditionalStack[Len(m.conditionalStack)].branchEndNodes =
                       Append(@, m.currentNode)]
    ELSE m

\* processElseIf that does not add its condition to the conditions seen
processElseIf_NoAccumulate(m, condition) ==
    LET m0 == flushTextBuffer(m)
    IN IF Len(m0.conditionalStack) = 0
       THEN throw(m0)
       ELSE LET m1 == pushBranchEnd(m0)
                ifState == m1.conditionalStack[Len(m0.conditionalStack)]
                elseifNodeId == NewId(m1)
                m2 == createNode(m1, "conditional",
                                 [NoAttr EXCEPT !.condition = condition])
                m3 == addEdge(m2, ifState.nodeBeforeIf, elseifNodeId,
                          [NoEdgeAttr EXCEPT !.condition =
                               "not(" \o ifState.condition \o ") and ("
                                   \o condition \o ")"])
            IN expectIndent([m3 EXCEPT !.currentNode = elseifNodeId])

processElseIf(m, condition) ==
    LET m0 == flushTextBuffer(m)
    IN IF Len(m0.conditionalStack) = 0
       THEN throw(m0)
       ELSE LET top == Len(m0.conditionalStack)
                m1 == pushBranchEnd(m0)
                ifState == m1.conditionalStack[top]
                elseifNodeId == NewId(m1)
                m2 == createNode(m1, "conditional",
                                 [NoAttr EXCEPT !.condition = condition])
                negatedPrevious == "not(" \o ifState.condition \o ")"
                m3 == addEdge(m2, ifState.nodeBeforeIf, elseifNodeId,
                          [NoEdgeAttr EXCEPT !.condition =
                               negatedPrevious \o " and (" \o condition \o ")"])
                m4 == [m3 EXCEPT !.conditionalStack[top].condition =
                           "(" \o ifState.condition \o ") or (" \o condition \o ")"]
            IN expectIndent([m4 EXCEPT !.currentNode = elseifNodeId])

processElse(m) ==
    LET m0 == flushTextBuffer(m)
    IN IF Len(m0.conditionalStack) = 0
       THEN throw(m0)
       ELSE LET m1 == pushBranchEnd(m0)
                ifState == m1.conditionalStack[Len(m1.conditionalStack)]
                elseNodeId == NewId(m1)
                negated == "not(" \o ifState.condition \o ")"
                m2 == createNode(m1, "conditional",
                                 [NoAttr EXCEPT !.condition = negated])
                m3 == addEdge(m2, ifState.nodeBeforeIf, elseNodeId,
                              [NoEdgeAttr EXCEPT !.condition = negated])
            IN expectIndent([m3 EXCEPT !.currentNode = elseNodeId])

RECURSIVE addEdgesTo(_, _, _)
\* branchEndNodes.forEach(endNode => addEdge(endNode, mergeNodeId))
addEdgesTo(m, endNodes, mergeNodeId) ==
    IF endNodes = <<>> THEN m
    ELSE addEdgesTo(addEdge(m, Head(endNodes), mergeNodeId, NoEdgeAttr),
                    Tail(endNodes), mergeNodeId)

\* endConditional that does not record the end of the last branch
endConditional_NoLastBranch(m) ==
    LET m0 == flushTextBuffer(m)
    IN IF Len(m0.conditionalStack) = 0
       THEN throw(m0)
       ELSE LET ifState == m0.conditionalStack[Len(m0.conditionalStack)]
                m2 == [m0 EXCEPT !.conditionalStack =
                                      SubSeq(@, 1, Len(@) - 1)]
                mergeNodeId == NewId(m2)
                m3 == createNode(m2, "merge", NoAttr)
                m4 == addEdgesTo(m3, ifState.branchEndNodes, mergeNodeId)
            IN [m4 EXCEPT !.currentNode = mergeNodeId,
                          !.currentState =
                              IF Len(m4.conditionalStack) = 0 THEN READING_TEXT
                              ELSE @]

endConditional(m) ==
    LET m0 == flushTextBuffer(m)
    IN IF Len(m0.conditionalStack) = 0
       THEN throw(m0)
       ELSE LET m1 == pushBranchEnd(m0)
                ifState == m1.conditionalStack[Len(m1.conditionalStack)]
                m2 == [m1 EXCEPT !.conditionalStack =
                                      SubSeq(@, 1, Len(@) - 1)]
                mergeNodeId == NewId(m2)
                m3 == createNode(m2, "merge", NoAttr)
                m4 == addEdgesTo(m3, ifState.branchEndNodes, mergeNodeId)
            IN [m4 EXCEPT !.currentNode = mergeNodeId,
                          !.currentState =
                              IF Len(m4.conditionalStack) = 0 THEN READING_TEXT
                              ELSE @]

\* the target of a goto / gosub node, when it is known now
linkTarget(m, fromId, sceneName, labelName) ==
    IF sceneName # ""
    THEN LET targetSceneEntry == MapGet(m.entryPoints, sceneName)
         IN IF targetSceneEntry # Null
            THEN addEdge(m, fromId, targetSceneEntry, NoEdgeAttr) ELSE m
    ELSE IF labelName # ""
    THEN LET targetLabelNode == MapGet(m.labels, labelName)
         IN IF targetLabelNode # Null
            THEN addEdge(m, fromId, targetLabelNode, NoEdgeAttr) ELSE m
    ELSE m

\* args is the label for "goto" / "gosub" and the scene for "goto_scene" /
\* "gosub_scene" (written without the optional label: parts[1] || '' is '')
processGoto(m, command, target) ==
    LET m0 == flushTextBuffer(m)
        sceneName == IF command = "goto_scene" THEN target ELSE ""
        labelName == IF command = "goto_scene" THEN "" ELSE target
        gotoNodeId == NewId(m0)
        m1 == createNode(m0, "goto", [NoAttr EXCEPT !.sceneName = sceneName,
                                                    !.labelName = labelName])
        m2 == addEdgeFromCurrent(m1, gotoNodeId, NoEdgeAttr)
        m3 == [m2 EXCEPT !.currentNode = gotoNodeId]
    IN linkTarget(m3, gotoNodeId, sceneName, labelName)

processLabel(m, label) ==
    LET m0 == flushTextBuffer(m)
        labelNodeId == NewId(m0)
        m1 == createNode(m0, "label", [NoAttr EXCEPT !.labelName = label])
        m2 == addEdgeFromCurrent(m1, labelNodeId, NoEdgeAttr)
    IN [m2 EXCEPT !.labels = MapSet(@, label, labelNodeId),
                  !.currentNode = labelNodeId]

processGosub(m, command, target) ==
    LET m0 == flushTextBuffer(m)
        sceneName == IF command = "gosub_scene" THEN target ELSE ""
        labelName == IF command = "gosub_scene" THEN "" ELSE target
        gosubNodeId == NewId(m0)
        m1 == createNode(m0, "gosub", [NoAttr EXCEPT !.sceneName = sceneName,
                                                     !.labelName = labelName])
        m2 == IF m1.currentNode # Null /\ m1.currentNode # EmptyId
              THEN [addEdge(m1, m1.currentNode, gosubNodeId, NoEdgeAttr)
                       EXCEPT !.subroutineStack = Append(@, m1.currentNode)]
              ELSE m1
        m3 == [m2 EXCEPT !.currentNode = gosubNodeId, !.currentState = SUBROUTINE]
    IN linkTarget(m3, gosubNodeId, sceneName, labelName)

\* processReturn that returns to the oldest pending call, not the latest
processReturn_Oldest(m) ==
    LET m0 == flushTextBuffer(m)
    IN IF Len(m0.subroutineStack) = 0
       THEN throw(m0)
       ELSE LET returnNodeId == NewId(m0)
                m1 == createNode(m0, "return", NoAttr)
                m2 == addEdgeFromCurrent(m1, returnNodeId, NoEdgeAttr)
                returnTarget == m2.subroutineStack[1]
                m3 == [m2 EXCEPT !.subroutineStack = Tail(@)]
                m4 == addEdge(m3, returnNodeId, returnTarget, NoEdgeAttr)
            IN [m4 EXCEPT !.currentNode = returnNodeId,
                          !.currentState =
                              IF Len(m4.subroutineStack) = 0 THEN READING_TEXT
                              ELSE @]

processReturn(m) ==
    LET m0 == flushTextBuffer(m)
    IN IF Len(m0.subroutineStack) = 0
       THEN throw(m0)
       ELSE LET returnNodeId == NewId(m0)
                m1 == createNode(m0, "return", NoAttr)
                m2 == addEdgeFromCurrent(m1, returnNodeId, NoEdgeAttr)
                returnTarget == m2.subroutineStack[Len(m2.subroutineStack)]
                m3 == [m2 EXCEPT !.subroutineStack = SubSeq(@, 1, Len(@) - 1)]
                m4 == addEdge(m3, returnNodeId, returnTarget, NoEdgeAttr)
            IN [m4 EXCEPT !.currentNode = returnNodeId,
                          !.currentState =
                              IF Len(m4.subroutineStack) = 0 THEN READING_TEXT
                              ELSE @]

processFinish(m) ==
    LET m0 == flushTextBuffer(m)
        finishNodeId == NewId(m0)
        m1 == createNode(m0, "finish", NoAttr)
        m2 == addEdgeFromCurrent(m1, finishNodeId, NoEdgeAttr)
    IN [m2 EXCEPT !.currentNode = finishNodeId]

processPageBreak(m) ==
    LET m0 == flushTextBuffer(m)
        pageBreakNodeId == NewId(m0)
        m1 == createNode(m0, "page_break", NoAttr)
        m2 == addEdgeFromCurrent(m1, pageBreakNodeId, NoEdgeAttr)
        continueNodeId == NewId(m2)
        m3 == createNode(m2, "text", NoAttr)
        m4 == addEdge(m3, pageBreakNodeId, continueNodeId, NoEdgeAttr)
    IN [m4 EXCEPT !.currentNode = continueNodeId]

processSceneList(m) ==
    LET m0 == flushTextBuffer(m)
        sceneListNodeId == NewId(m0)
        m1 == createNode(m0, "scene_list", NoAttr)
        m2 == IF m1.currentNode # Null /\ m1.currentNode # EmptyId
              THEN [addEdge(m1, m1.currentNode, sceneListNodeId, NoEdgeAttr)
                       EXCEPT !.currentNode = sceneListNodeId]
              ELSE m1
    IN expectIndent([m2 EXCEPT !.currentState = SCENE_LIST])

\* --------------------------------------------------------------- strings
\* The argument of *create / *temp / *set is a sequence of characters, a
\* character being a string of length one. Indexes are those of the source:
\* the first character has index 0 and indexOf gives -1 for "not found".
Letters ==
    {"a", "b", "c", "d", "e", "f", "g", "h", "i", "j", "k", "l", "m", "n", "o",
     "p", "q", "r", "s", "t", "u", "v", "w", "x", "y", "z",
     "A", "B", "C", "D", "E", "F", "G", "H", "I", "J", "K", "L", "M", "N", "O",
     "P", "Q", "R", "S", "T", "U", "V", "W", "X", "Y", "Z"}
Digits == {"0", "1", "2", "3", "4", "5", "6", "7", "8", "9"}
Whitespace == {" ", "\t", "\n"}

indexOf(str, pat) ==
    LET hits == {i \in 1..(Len(str) - Len(pat) + 1) :
                    SubSeq(str, i, i + Len(pat) - 1) = pat}
    IN IF hits = {} THEN -1
       ELSE (CHOOSE i \in hits : \A j \in hits : i <= j) - 1

\* String.prototype.substring: both indexes are clamped to 0..length and
\* swapped when the first is the greater
substring(str, from, to) ==
    LET clamp(x) == IF x < 0 THEN 0 ELSE IF x > Len(str) THEN Len(str) ELSE x
        lo == IF clamp(from) <= clamp(to) THEN clamp(from) ELSE clamp(to)
        hi == IF clamp(from) <= clamp(to) THEN clamp(to) ELSE clamp(from)
    IN SubSeq(str, lo + 1, hi)

RECURSIVE trimString(_)
trimString(str) ==
    IF str = <<>> THEN str
    ELSE IF Head(str) \in Whitespace THEN trimString(Tail(str))
    ELSE IF str[Len(str)] \in Whitespace
    THEN trimString(SubSeq(str, 1, Len(str) - 1))
    ELSE str

isValidVariableName(name) ==
    /\ Len(name) > 0
    /\ \A i \in 1..Len(name) : name[i] \in Letters \cup Digits \cup {"_"}

isNumeric(value) ==
    LET trimmedValue == trimString(value)
        startIndex == IF trimmedValue # <<>> /\ trimmedValue[1] \in {"-", "+"}
                      THEN 1 ELSE 0
        rest == substring(trimmedValue, startIndex, Len(trimmedValue))
        firstPoint == indexOf(rest, <<".">>)
    IN \/ value = <<>>
       \/ \A i \in 1..Len(rest) :
              rest[i] \in Digits \/ (rest[i] = "." /\ i = firstPoint + 1)

\* ------------------------------------------------------------- variables
\* the null result of extractVariableNameAndValue
NoResult == [ok |-> FALSE, variableName |-> <<>>, value |-> <<>>, operation |-> ""]

\* a result, or null when the name is not valid or the value is empty
operatorResult(variableName, value, operation) ==
    IF ~isValidVariableName(variableName) \/ Len(value) = 0
    THEN NoResult
    ELSE [ok |-> TRUE, variableName |-> variableName, value |-> value,
          operation |-> operation]

\* operation is "undefined" where the source returns no operation field
extractVariableNameAndValue(args) ==
    LET firstWhitespace(str) ==
            LET spaces == {i \in 1..Len(str) : str[i] \in Whitespace}
            IN IF spaces = {} THEN -1
               ELSE (CHOOSE i \in spaces : \A j \in spaces : i <= j) - 1
        extract(trimmedArgs, firstSpaceIndex, fairMathPlusIndex, fairMathMinusIndex,
                plusIndex, minusIndex, end) ==
            IF end = 0 THEN NoResult
            ELSE IF fairMathPlusIndex # -1
            THEN operatorResult(
                     trimString(substring(trimmedArgs, 0, fairMathPlusIndex - 1)),
                     trimString(substring(trimmedArgs, fairMathPlusIndex + 2, end)),
                     "fairmath_add")
            ELSE IF fairMathMinusIndex # -1
            THEN operatorResult(
                     trimString(substring(trimmedArgs, 0, fairMathMinusIndex)),
                     trimString(substring(trimmedArgs, fairMathMinusIndex + 2, end)),
                     "fairmath_subtract")
            ELSE IF plusIndex # -1
            THEN operatorResult(substring(trimmedArgs, 0, plusIndex),
                                substring(trimmedArgs, plusIndex + 1, end), "add")
            ELSE IF minusIndex # -1
            THEN operatorResult(substring(trimmedArgs, 0, minusIndex),
                                substring(trimmedArgs, minusIndex + 1, end),
                                "subtract")
            ELSE IF firstSpaceIndex = -1
            THEN IF isValidVariableName(trimmedArgs)
                 THEN [ok |-> TRUE, variableName |-> trimmedArgs,
                       value |-> <<>>, operation |-> "undefined"]
                 ELSE NoResult
            ELSE IF ~isValidVariableName(substring(trimmedArgs, 0, firstSpaceIndex))
            THEN NoResult
            ELSE \* no operator is in trimmedArgs here, so none starts the value
                 [ok |-> TRUE,
                  variableName |-> substring(trimmedArgs, 0, firstSpaceIndex),
                  value |-> trimString(substring(trimmedArgs, firstSpaceIndex, end)),
                  operation |-> "set"]
        trimmed(trimmedArgs) ==
            extract(trimmedArgs, firstWhitespace(trimmedArgs),
                    indexOf(trimmedArgs, <<"%", "+">>),
                    indexOf(trimmedArgs, <<"%", "-">>),
                    indexOf(trimmedArgs, <<"+">>), indexOf(trimmedArgs, <<"-">>),
                    Len(trimmedArgs))
    IN trimmed(trimString(args))

processVariableDeclaration(m, command, args) ==
    LET declare(result, dataType) ==
            LET variable == [name |-> result.variableName, type |-> command,
                             dataType |-> dataType,
                             initialValue |-> result.value]
                declared(vars) == MapSet(vars, result.variableName, variable)
                m1 == [m EXCEPT !.variables = declared(@),
                                !.metadataVariables =
                                    IF command = "create" THEN declared(@) ELSE @]
                varNodeId == NewId(m)
                m2 == createNode(m1, "variable",
                          [NoAttr EXCEPT !.command = command,
                                         !.variableName = result.variableName,
                                         !.initialValue = result.value,
                                         !.dataType = dataType])
                m3 == addEdgeFromCurrent(m2, varNodeId, NoEdgeAttr)
            IN IF ~result.ok THEN throw(m)
               ELSE [m3 EXCEPT !.currentNode = varNodeId]
        typed(result) ==
            declare(result,
                IF result.value \in {<<"t", "r", "u", "e">>,
                                     <<"f", "a", "l", "s", "e">>}
                THEN "boolean"
                ELSE IF result.value = <<>> \/ isNumeric(result.value)
                THEN "numeric"
                ELSE "string")
    IN typed(extractVariableNameAndValue(args))

RECURSIVE stripOperators(_)
\* value.replace(/^[%+\-]*/, '')
stripOperators(value) ==
    IF value # <<>> /\ Head(value) \in {"%", "+", "-"}
    THEN stripOperators(Tail(value)) ELSE value

\* processVariableAssignment that records every assignment as a plain set
processVariableAssignment_PlainSet(m, args) ==
    LET assign(result, setNodeId) ==
            IF ~result.ok THEN throw(m)
            ELSE [addEdgeFromCurrent(
                      createNode(m, "set",
                          [NoAttr EXCEPT !.variableName = result.variableName,
                                         !.value = result.value,
                                         !.operation = "set"]),
                      setNodeId, NoEdgeAttr)
                    EXCEPT !.currentNode = setNodeId]
    IN assign(extractVariableNameAndValue(args), NewId(m))

processVariableAssignment(m, args) ==
    LET assign(result, operation, setNodeId) ==
            LET statChange ==
                    [variable |-> result.variableName,
                     operation |->
                         IF indexOf(result.value, <<"%", "+">>) # -1
                         THEN "fairmath_add"
                         ELSE IF indexOf(result.value, <<"%", "-">>) # -1
                         THEN "fairmath_subtract" ELSE "set",
                     value |-> stripOperators(result.value)]
            IN IF ~result.ok THEN throw(m)
               ELSE [addEdgeFromCurrent(
                         createNode(m, "set",
                             [NoAttr EXCEPT
                                 !.variableName = result.variableName,
                                 !.value = result.value,
                                 !.operation = operation,
                                 !.isFairmath = operation \in
                                     {"fairmath_add", "fairmath_subtract"}]),
                         setNodeId,
                         [NoEdgeAttr EXCEPT !.statChanges = <<statChange>>])
                       EXCEPT !.currentNode = setNodeId]
        named(result) ==
            assign(result,
                   IF result.operation = "undefined" THEN "set"
                   ELSE result.operation,
                   NewId(m))
    IN named(extractVariableNameAndValue(args))

\* case 'comment' and the default case: a node linked from the current node,
\* which becomes current only when there was a current node
processOther(m, type) ==
    LET nodeId == NewId(m)
        m1 == createNode(m, type, NoAttr)
    IN IF m1.currentNode # Null /\ m1.currentNode # EmptyId
       THEN [addEdge(m1, m1.currentNode, nodeId, NoEdgeAttr)
                EXCEPT !.currentNode = nodeId]
       ELSE m1

\* the cases of the commands that no script of this model uses (title, author,
\* achievement) are not listed
processCommand(m, command, args) ==
    CASE command = "choice" -> startChoiceBlock(m, FALSE)
      [] command = "fake_choice" -> startChoiceBlock(m, TRUE)
      [] command = "if" -> startConditional(m, args)
      [] command \in {"elseif", "elsif"} -> processElseIf(m, args)
      [] command = "else" -> processElse(m)
      [] command = "endif" -> endConditional(m)
      [] command \in {"goto", "goto_scene"} -> processGoto(m, command, args)
      [] command = "label" -> processLabel(m, args)
      [] command \in {"create", "temp"} ->
             processVariableDeclaration(m, command, args)
      [] command = "set" -> processVariableAssignment(m, args)
      [] command \in {"gosub", "gosub_scene"} -> processGosub(m, command, args)
      [] command = "return" -> processReturn(m)
      [] command = "finish" -> processFinish(m)
      [] command = "page_break" -> processPageBreak(m)
      [] command = "scene_list" -> processSceneList(m)
      [] command = "comment" -> processOther(m, "comment")
      [] OTHER -> processOther(m, "unknown_command")

commandsRequiringIndent ==
    {"fake_choice", "choice", "if", "else", "elseif", "elsif", "scene_list",
     "achievement", "goto_random_scene", "stat_chart"}

RECURSIVE processLine(_, _)
RECURSIVE processIndentedContent(_, _)

\* endConditional, up to n times while an *if is open
RECURSIVE forceClose(_, _)
forceClose(m, n) ==
    IF n > 0 /\ Len(m.conditionalStack) > 0 /\ ~m.thrown
    THEN forceClose(endConditional(m), n - 1)
    ELSE m

Min(a, b) == IF a < b THEN a ELSE b

processIndentedContent(m, line) ==
    IF m.currentIndentLevel < m.expectedIndentLevel
       /\ m.currentState \in {CHOICE_BLOCK, CONDITIONAL}
    THEN LET indentLevelDecrease == m.expectedIndentLevel - m.currentIndentLevel
         IN IF m.currentState = CHOICE_BLOCK
            THEN LET pops == Min(indentLevelDecrease, Len(m.choiceNodeStack))
                     m1 == [m EXCEPT !.choiceNodeStack =
                                         SubSeq(@, 1, Len(@) - pops)]
                     m2 == [m1 EXCEPT !.currentState =
                                IF Len(m1.choiceNodeStack) = 0 THEN READING_TEXT
                                ELSE @,
                                      !.expectedIndentLevel = m.currentIndentLevel]
                 IN processLine(m2, line)
            ELSE LET m1 == forceClose(m, indentLevelDecrease)
                     m2 == [m1 EXCEPT !.expectedIndentLevel = m.currentIndentLevel]
                 IN processLine(m2, line)
    ELSE IF m.currentState = CHOICE_BLOCK
    THEN \* a line that starts with '*' never reaches this place
         appendText(m, line.args)
    ELSE IF m.currentState = CONDITIONAL
    THEN processLine(m, trim(line))
    ELSE m

processLine(m, line) ==
    LET m0 == [m EXCEPT !.currentIndentLevel = line.ind,
                        !.commandRequiringIndent = FALSE]
    IN CASE line.kind = "blank" ->
              IF m0.currentState = READING_TEXT
              THEN [m0 EXCEPT !.textBuffer = Append(@, NL)] ELSE m0
         [] line.kind = "option" /\ m0.currentState # CHOICE_BLOCK -> m0
         [] line.kind = "command" ->
              LET m1 == [flushTextBuffer(m0) EXCEPT !.currentState = COMMAND]
                  m2 == IF line.command \in commandsRequiringIndent
                        THEN expectIndent(m1) ELSE m1
              IN processCommand(m2, line.command, line.args)
         [] line.kind = "option" /\ m0.currentState = CHOICE_BLOCK ->
              processChoiceOption(expectIndent(m0), line.args)
         [] line.kind = "text" /\ m0.currentState = SCENE_LIST ->
              IF m0.currentIndentLevel = m0.expectedIndentLevel
              THEN \* node.attributes.scenes.push(sceneName), when the current
                   \* node is the scene_list node
                   IF m0.currentNode \in 1..Len(m0.nodes)
                      /\ m0.nodes[m0.currentNode].type = "scene_list"
                   THEN [m0 EXCEPT !.nodes[m0.currentNode].attributes.scenes =
                                       Append(@, line.args)]
                   ELSE m0
              ELSE appendText([m0 EXCEPT !.currentState = READING_TEXT], line.args)
         [] line.kind = "text" /\ m0.currentIndentLevel > 0
                /\ m0.currentState \in {CHOICE_BLOCK, CONDITIONAL} ->
              processIndentedContent(m0, line)
         [] OTHER ->
              IF m0.currentState = READING_TEXT
              THEN appendText(m0, line.args) ELSE m0

\* ---------------------------------------------------------------- scenes
\* The scene provider: hasScene(s) is s \in exists (fixed for a run), and
\* loadScene(s) is content[s], the script of s, which a run reveals one line at
\* a time as processContent walks it.
SceneNames == {"startup", "a", "b"}
EntryScene == "startup"

\* ================================================================ scanner
\* scanScene (the lexer): a line is a sequence of characters, lineNumber and
\* position count from 0 as in the source, and an indent is counted in half
\* levels (a tab is 2, a space 1) so that it stays a whole number.
undefined == -1

\* a token: the fields every token has, and the fields some kinds add
Token(type, lineNumber, position, indent) ==
    [type |-> type, lineNumber |-> lineNumber, position |-> position,
     indent |-> indent, content |-> <<>>, value |-> <<>>, rawText |-> <<>>,
     hasMultiReplace |-> FALSE]

\* the context scanScene starts with
newContext ==
    [proseBlock |-> <<>>,
     proseBlockStart |-> [defined |-> FALSE, position |-> 0, lineNumber |-> 0,
                          indent |-> 0],
     lineNumber |-> 0, position |-> 0, mode |-> "Indentation",
     currentToken |-> <<>>, currentTokenStartPosition |-> undefined,
     insideMultiLineToken |-> FALSE,
     indent |-> [current |-> 0, previous |-> undefined]]

isStartOfToken(char) == char \in {"*", "#"}

\* the cases of handleToken that return a token: the text matched, the type of
\* the token and the mode the scanner goes to
Keywords ==
    {[word |-> <<"*", "l", "a", "b", "e", "l">>,
      type |-> "Label", mode |-> "Expression"],
     [word |-> <<"*", "h", "i", "d", "e", "_", "r", "e", "u", "s", "e">>,
      type |-> "HideReuse", mode |-> "Prose"],
     [word |-> <<"*", "d", "i", "s", "a", "b", "l", "e", "_", "r", "e", "u", "s", "e">>,
      type |-> "DisableReuse", mode |-> "Prose"],
     [word |-> <<"*", "a", "l", "l", "o", "w", "_", "r", "e", "u", "s", "e">>,
      type |-> "AllowReuse", mode |-> "Prose"],
     [word |-> <<"*", "g", "o", "s", "u", "b", " ">>,
      type |-> "GoSub", mode |-> "Expression"],
     [word |-> <<"*", "g", "o", "s", "u", "b", "_", "s", "c", "e", "n", "e", " ">>,
      type |-> "GoSubScene", mode |-> "Expression"],
     [word |-> <<"*", "r", "e", "t", "u", "r", "n", " ">>,
      type |-> "Return", mode |-> "Expression"],
     [word |-> <<"*", "g", "o", "t", "o", " ">>,
      type |-> "GotoLabel", mode |-> "Expression"],
     [word |-> <<"*", "g", "o", "t", "o", "_", "s", "c", "e", "n", "e">>,
      type |-> "GotoScene", mode |-> "Expression"],
     [word |-> <<"*", "g", "o", "t", "o", "_", "r", "a", "n", "d", "o", "m", "_", "s", "c", "e", "n", "e">>,
      type |-> "GotoRandomScene", mode |-> "Expression"],
     [word |-> <<"#">>,
      type |-> "ChoiceOption", mode |-> "ChoiceOption"],
     [word |-> <<"*", "i", "f">>,
      type |-> "If", mode |-> "Expression"],
     [word |-> <<"*", "e", "l", "s", "e", " ", "i", "f">>,
      type |-> "ElseIf", mode |-> "Expression"],
     [word |-> <<"*", "e", "l", "s", "e", "i", "f">>,
      type |-> "ElseIf", mode |-> "Expression"],
     [word |-> <<"*", "e", "l", "s", "i", "f">>,
      type |-> "ElseIf", mode |-> "Expression"],
     [word |-> <<"*", "e", "l", "s", "e", "\n">>,
      type |-> "Else", mode |-> "Expression"],
     [word |-> <<"*", "e", "l", "s", "e", " ">>,
      type |-> "Else", mode |-> "Expression"],
     [word |-> <<"*", "c", "r", "e", "a", "t", "e">>,
      type |-> "CreateVariable", mode |-> "Expression"],
     [word |-> <<"*", "t", "e", "m", "p">>,
      type |-> "CreateTempVariable", mode |-> "Expression"],
     [word |-> <<"*", "s", "e", "t">>,
      type |-> "SetVariable", mode |-> "Expression"],
     [word |-> <<"*", "c", "h", "o", "i", "c", "e">>,
      type |-> "Choice", mode |-> "Prose"],
     [word |-> <<"*", "f", "a", "k", "e", "_", "c", "h", "o", "i", "c", "e">>,
      type |-> "FakeChoice", mode |-> "Prose"],
     [word |-> <<"*", "f", "i", "n", "i", "s", "h">>,
      type |-> "Finish", mode |-> "ProseToEOL"],
     [word |-> <<"*", "e", "n", "d", "i", "n", "g">>,
      type |-> "Ending", mode |-> "ProseToEOL"],
     [word |-> <<"*", "s", "t", "a", "t", "_", "c", "h", "a", "r", "t">>,
      type |-> "StatChart", mode |-> "Prose"],
     [word |-> <<"*", "l", "i", "n", "e", "_", "b", "r", "e", "a", "k">>,
      type |-> "LineBreak", mode |-> "Prose"],
     [word |-> <<"*", "s", "e", "l", "e", "c", "t", "a", "b", "l", "e", "_", "i", "f">>,
      type |-> "SelectableIf", mode |-> "Expression"],
     [word |-> <<"*", "l", "i", "n", "k">>,
      type |-> "Link", mode |-> "Expression"],
     [word |-> <<"*", "c", "o", "m", "m", "e", "n", "t">>,
      type |-> "Comment", mode |-> "Comment"],
     [word |-> <<"*", "i", "m", "a", "g", "e">>,
      type |-> "Image", mode |-> "Expression"],
     [word |-> <<"*", "i", "n", "p", "u", "t", "_", "n", "u", "m", "b", "e", "r">>,
      type |-> "InputNumber", mode |-> "Expression"],
     [word |-> <<"*", "i", "n", "p", "u", "t", "_", "t", "e", "x", "t">>,
      type |-> "InputText", mode |-> "Expression"],
     [word |-> <<"*", "a", "u", "t", "h", "o", "r">>,
      type |-> "Author", mode |-> "Expression"],
     [word |-> <<"*", "i", "f", "i", "d">>,
      type |-> "GameIdentifier", mode |-> "Expression"],
     [word |-> <<"*", "p", "a", "g", "e", "_", "b", "r", "e", "a", "k">>,
      type |-> "PageBreak", mode |-> "ProseToEOL"],
     [word |-> <<"*", "s", "a", "v", "e", "_", "c", "h", "e", "c", "k", "p", "o", "i", "n", "t">>,
      type |-> "SaveCheckpoint", mode |-> "Prose"],
     [word |-> <<"*", "r", "e", "s", "t", "o", "r", "e", "_", "c", "h", "e", "c", "k", "p", "o", "i", "n", "t">>,
      type |-> "RestoreCheckpoint", mode |-> "Prose"],
     [word |-> <<"*", "d", "e", "l", "e", "t", "e">>,
      type |-> "DeleteVariable", mode |-> "Expression"],
     [word |-> <<"*", "r", "a", "n", "d">>,
      type |-> "GenerateRandom", mode |-> "Expression"]}

\* the cases of handleToken that return no token and set insideMultiLineToken
MultiLineKeywords ==
    {<<"*", "s", "c", "e", "n", "e", "_", "l", "i", "s", "t">>,
     <<"*", "a", "c", "h", "i", "e", "v", "e", "m", "e", "n", "t">>}

\* handleToken: the context after it, and the token it returns (<<>> for none)
handleToken(ctx) ==
    LET matches == {k \in Keywords : k.word = ctx.currentToken}
    IN IF matches # {}
       THEN LET k == CHOOSE k \in matches : TRUE
            IN [context |-> [ctx EXCEPT !.mode = k.mode,
                                        !.currentTokenStartPosition = undefined,
                                        !.currentToken = <<>>],
                token |-> <<Token(k.type, ctx.lineNumber,
                                  ctx.currentTokenStartPosition,
                                  ctx.indent.current)>>]
       ELSE IF ctx.currentToken \in MultiLineKeywords
       THEN [context |-> [ctx EXCEPT !.insideMultiLineToken = TRUE],
             token |-> <<>>]
       ELSE [context |-> ctx, token |-> <<>>]

\* ---- tokenizeExpressionString (expression-handler.ts)
RECURSIVE runEnd(_, _, _)
\* the cursor after the run of characters of a class that starts at cursor
runEnd(expression, cursor, class) ==
    IF cursor < Len(expression) /\ expression[cursor + 1] \in class
    THEN runEnd(expression, cursor + 1, class) ELSE cursor

RECURSIVE stringEnd(_, _, _)
\* the cursor at the closing quote of a string literal, or at the end; a
\* backslash takes the next character with it
stringEnd(expression, cursor, quote) ==
    IF cursor < Len(expression) /\ expression[cursor + 1] # quote
    THEN IF expression[cursor + 1] = "\\" /\ cursor + 1 < Len(expression)
         THEN stringEnd(expression, cursor + 2, quote)
         ELSE stringEnd(expression, cursor + 1, quote)
    ELSE cursor

\* the type of the token an identifier run makes
wordType(word) ==
    CASE word \in {<<"t", "r", "u", "e">>, <<"f", "a", "l", "s", "e">>} ->
             "BooleanLiteral"
      [] word \in {<<"a", "n", "d">>, <<"o", "r">>} -> "LogicalOperator"
      [] word \in {<<"n", "o", "t">>, <<"r", "o", "u", "n", "d">>} ->
             "UnaryOperator"
      [] word = <<"m", "o", "d", "u", "l", "o">> -> "ArithmeticOperator"
      [] OTHER -> "Identifier"

\* the type of the token two characters make, "" when they make none
twoCharsType(twoChars) ==
    CASE twoChars \in {<<"%", "+">>, <<"%", "-">>} -> "ArithmeticOperator"
      [] twoChars \in {<<">", "=">>, <<"<", "=">>, <<"!", "=">>} ->
             "ComparisonOperator"
      [] twoChars = <<"@", "{">> -> "OpenMultiReplace"
      [] twoChars = <<"$", "{">> -> "OpenPrint"
      [] OTHER -> ""

\* the type of the token one character makes, "" when it makes none
charType(char) ==
    CASE char = "(" -> "OpenParenthesis"
      [] char = ")" -> "CloseParenthesis"
      [] char \in {"+", "-", "*", "/", "%", "&"} -> "ArithmeticOperator"
      [] char \in {"=", ">", "<"} -> "ComparisonOperator"
      [] char = "|" -> "MultiReplaceElse"
      [] char = "}" -> "CloseBrace"
      [] OTHER -> ""

\* an iteration whose last branch leaves the cursor where it is
tokenizeStep_StuckOnOther(expression, cursor, lineNumber, position, indent) ==
    IF expression[cursor + 1] \in {" ", "\t", "(", ")"}
    THEN [cursor |-> cursor + 1, tokens |-> <<>>]
    ELSE [cursor |-> cursor, tokens |-> <<>>]

\* one iteration of the loop of tokenizeExpressionString, entered with
\* cursor < expression.length: the cursor after it and the tokens it pushes.
\* The value of a token is the text it was made of (the source converts a
\* number with parseFloat and drops the backslashes of a string).
tokenizeStep(expression, cursor, lineNumber, position, indent) ==
    LET char == expression[cursor + 1]
        twoChars == substring(expression, cursor, cursor + 2)
        made(type, end) ==
            [cursor |-> end,
             tokens |-> <<[Token(type, lineNumber, position + cursor, indent)
                              EXCEPT !.value = substring(expression, cursor, end)]>>]
        skipped == [cursor |-> cursor + 1, tokens |-> <<>>]
    IN IF char \in {" ", "\t"} THEN skipped
       ELSE IF char \in Digits
       THEN made("NumberLiteral", runEnd(expression, cursor, Digits \cup {"."}))
       ELSE IF char \in {"\"", "'"}
       THEN LET close == stringEnd(expression, cursor + 1, char)
            IN made("StringLiteral",
                    IF close < Len(expression) THEN close + 1 ELSE close)
       ELSE IF char \in {"(", ")"} THEN made(charType(char), cursor + 1)
       ELSE IF cursor + 1 < Len(expression) /\ twoCharsType(twoChars) # ""
       THEN made(twoCharsType(twoChars), cursor + 2)
       ELSE IF charType(char) # "" THEN made(charType(char), cursor + 1)
       ELSE IF char \in Letters \cup {"_"}
       THEN LET end == runEnd(expression, cursor,
                              Letters \cup Digits \cup {"_"})
            IN made(wordType(substring(expression, cursor, end)), end)
       ELSE skipped

RECURSIVE tokenizeFrom(_, _, _, _, _)
\* the loop of tokenizeExpressionString from cursor on, run to its end: the
\* tokens it pushes
tokenizeFrom(expression, cursor, lineNumber, position, indent) ==
    LET char == expression[cursor + 1]
        twoChars == substring(expression, cursor, cursor + 2)
        made(type, end) ==
            <<[Token(type, lineNumber, position + cursor, indent)
                  EXCEPT !.value = substring(expression, cursor, end)]>>
                \o tokenizeFrom(expression, end, lineNumber, position, indent)
    IN IF cursor >= Len(expression) THEN <<>>
       ELSE IF char \in {" ", "\t"}
       THEN tokenizeFrom(expression, cursor + 1, lineNumber, position, indent)
       ELSE IF char \in Digits
       THEN made("NumberLiteral", runEnd(expression, cursor, Digits \cup {"."}))
       ELSE IF char \in {"\"", "'"}
       THEN LET close == stringEnd(expression, cursor + 1, char)
            IN made("StringLiteral",
                    IF close < Len(expression) THEN close + 1 ELSE close)
       ELSE IF char \in {"(", ")"} THEN made(charType(char), cursor + 1)
       ELSE IF cursor + 1 < Len(expression) /\ twoCharsType(twoChars) # ""
       THEN made(twoCharsType(twoChars), cursor + 2)
       ELSE IF charType(char) # "" THEN made(charType(char), cursor + 1)
       ELSE IF char \in Letters \cup {"_"}
       THEN LET end == runEnd(expression, cursor,
                              Letters \cup Digits \cup {"_"})
            IN made(wordType(substring(expression, cursor, end)), end)
       ELSE tokenizeFrom(expression, cursor + 1, lineNumber, position, indent)

tokenizeExpressionString(expression, lineNumber, position, indent) ==
    tokenizeFrom(expression, 0, lineNumber, position, indent)

\* ------------------------------------------------- Parser (parser/parser.ts)
\* A parser is the record [tokens, current, thrown, error]: the fields of the
\* class, and the Error that a throw leaves the call with. A method that returns
\* a value and moves current gives [p |-> the parser after it, node |-> the
\* value]. A field that is null in the source is <<>> here, and <<v>> when it
\* holds v.
newParser(tokens) ==
    [tokens |-> tokens, current |-> 0, thrown |-> FALSE,
     error |-> [message |-> "", type |-> "", lineNumber |-> 0, position |-> 0,
                indent |-> 0]]

peek(p) == p.tokens[p.current + 1]

\* this.previous(), with the values that `?.` and `?? 0` give for no token
previous(p) ==
    IF p.current = 0 THEN Token("undefined", 0, 0, 0) ELSE p.tokens[p.current]

isAtEnd(p) == peek(p).type = "SceneEnd"

peekSameLine(p) == peek(p).lineNumber = previous(p).lineNumber

peekSameIndent(p, desiredIndent) == peek(p).indent = desiredIndent

peekLessIndent(p, desiredIndent) == peek(p).indent < desiredIndent

childScope(p, indent) ==
    ~peekSameIndent(p, indent) /\ ~peekLessIndent(p, indent)

siblingScope(p, indent) == ~peekLessIndent(p, indent)

check(p, type, sameLine, sameIndent) ==
    /\ ~isAtEnd(p)
    /\ sameLine => peekSameLine(p)
    /\ sameIndent => peekSameIndent(p, previous(p).indent)
    /\ peek(p).type = type

\* the parser after advance(); the token it returns is previous() of the result
advance(p) == IF isAtEnd(p) THEN p ELSE [p EXCEPT !.current = @ + 1]

\* the value of match(...); when it is true the call has also advanced
match(p, typesToMatch, sameLine, sameIndent) ==
    \E tokenType \in typesToMatch : check(p, tokenType, sameLine, sameIndent)

\* error() that names the token before the offending one
error_Previous(p, token, message) ==
    [p EXCEPT !.thrown = TRUE,
              !.error = [message |-> message, type |-> previous(p).type,
                         lineNumber |-> previous(p).lineNumber,
                         position |-> previous(p).position,
                         indent |-> previous(p).indent]]

\* error() and report(): the Error names the message and the token's type,
\* line, position and indent (the scene name is the same for every token)
error(p, token, message) ==
    [p EXCEPT !.thrown = TRUE,
              !.error = [message |-> message, type |-> token.type,
                         lineNumber |-> token.lineNumber,
                         position |-> token.position,
                         indent |-> token.indent]]

consume(p, type, message) ==
    IF check(p, type, TRUE, TRUE) THEN advance(p)
    ELSE error(p, peek(p), message)

expectLineChange(p) ==
    IF p.thrown \/ ~peekSameLine(p) THEN p
    ELSE error(p, peek(p), "Expected end of statement")

\* a result that carries a throw on, or the node made of a result without one
then(r, make(_)) == IF r.p.thrown THEN r ELSE [p |-> r.p, node |-> make(r.node)]

RECURSIVE expression(_)
RECURSIVE statement(_)

primary(p) ==
    IF match(p, {"NumberLiteral", "StringLiteral", "BooleanLiteral"}, TRUE, TRUE)
    THEN [p |-> advance(p), node |-> [value |-> peek(p)]]
    ELSE IF match(p, {"Identifier"}, TRUE, TRUE)
    THEN [p |-> advance(p), node |-> [token |-> peek(p)]]
    ELSE IF match(p, {"OpenParenthesis"}, TRUE, TRUE)
    THEN LET closed(r) ==
                 IF r.p.thrown THEN r
                 ELSE [p |-> consume(r.p, "CloseParenthesis",
                                     "Expect ')' after expression."),
                       node |-> [expression |-> r.node]]
         IN closed(expression(advance(p)))
    ELSE [p |-> error(p, peek(p), "Expect expression."), node |-> <<>>]

RECURSIVE unary(_)
unary(p) ==
    IF match(p, {"NotOperator", "SubtractionOperator", "AdditionOperator",
                 "FairmathAdditionOperator", "FairmathSubtractionOperator"},
             TRUE, TRUE)
    THEN LET Unary(right) == [operator |-> peek(p), value |-> right]
         IN then(unary(advance(p)), Unary)
    ELSE primary(p)

\* The binary levels. Each is `expr = operand(); while (match(operators))
\* expr = Binary(expr, operator, operand())`: pending is <<>> at the first
\* operand and <<expr, operator>> at the operand after an operator.
factor(p) ==
    LET RECURSIVE operand(_, _)
        operand(pending, q) ==
            LET Binary(right) ==
                    IF pending = <<>> THEN right
                    ELSE [left |-> pending[1], operator |-> pending[2],
                          right |-> right]
                loop(r) ==
                    IF r.p.thrown
                       \/ ~match(r.p, {"DivisionOperator", "MultiplicationOperator",
                                  "ModulusOperator"},
                                 TRUE, TRUE)
                    THEN r
                    ELSE operand(<<r.node, peek(r.p)>>, advance(r.p))
            IN loop(then(unary(q), Binary))
    IN operand(<<>>, p)

\* the operand after an operator is this.term(), not this.factor()
RECURSIVE term(_)
term(p) ==
    LET RECURSIVE operand(_, _)
        operand(pending, q) ==
            LET Binary(right) ==
                    IF pending = <<>> THEN right
                    ELSE [left |-> pending[1], operator |-> pending[2],
                          right |-> right]
                loop(r) ==
                    IF r.p.thrown
                       \/ ~match(r.p, {"SubtractionOperator", "AdditionOperator",
                                  "ConcatenationOperator"},
                                 TRUE, TRUE)
                    THEN r
                    ELSE operand(<<r.node, peek(r.p)>>, advance(r.p))
            IN loop(then(IF pending = <<>> THEN factor(q) ELSE term(q), Binary))
    IN operand(<<>>, p)

comparison(p) ==
    LET RECURSIVE operand(_, _)
        operand(pending, q) ==
            LET Binary(right) ==
                    IF pending = <<>> THEN right
                    ELSE [left |-> pending[1], operator |-> pending[2],
                          right |-> right]
                loop(r) ==
                    IF r.p.thrown
                       \/ ~match(r.p, {"GreaterThanOperator", "GreaterThanEqualsOperator",
                                  "LessThanOperator", "LessThanEqualsOperator",
                                  "EqualityOperator", "NotEqualityOperator"},
                                 TRUE, TRUE)
                    THEN r
                    ELSE operand(<<r.node, peek(r.p)>>, advance(r.p))
            IN loop(then(term(q), Binary))
    IN operand(<<>>, p)

equality(p) ==
    LET RECURSIVE operand(_, _)
        operand(pending, q) ==
            LET Binary(right) ==
                    IF pending = <<>> THEN right
                    ELSE [left |-> pending[1], operator |-> pending[2],
                          right |-> right]
                loop(r) ==
                    IF r.p.thrown
                       \/ ~match(r.p, {"NotEqualityOperator", "EqualityOperator"},
                                 TRUE, TRUE)
                    THEN r
                    ELSE operand(<<r.node, peek(r.p)>>, advance(r.p))
            IN loop(then(comparison(q), Binary))
    IN operand(<<>>, p)

logical(p) ==
    LET RECURSIVE operand(_, _)
        operand(pending, q) ==
            LET Binary(right) ==
                    IF pending = <<>> THEN right
                    ELSE [left |-> pending[1], operator |-> pending[2],
                          right |-> right]
                loop(r) ==
                    IF r.p.thrown
                       \/ ~match(r.p, {"LogicalAnd", "LogicalOr"},
                                 TRUE, TRUE)
                    THEN r
                    ELSE operand(<<r.node, peek(r.p)>>, advance(r.p))
            IN loop(then(equality(q), Binary))
    IN operand(<<>>, p)

expression(p) == logical(p)

\* list.push(this.statement()), from a result whose node is the list so far
pushStatement(r) ==
    LET push(s) == Append(r.node, s)
    IN then(statement(r.p), push)

\* while (this.childScope(indent)) body.push(this.statement())
RECURSIVE scopeBody(_, _)
scopeBody(r, indent) ==
    IF r.p.thrown \/ ~childScope(r.p, indent) THEN r
    ELSE scopeBody(pushStatement(r), indent)

\* proseStatement and commentBlock: the loop takes the token that match
\* advanced to and then the one that advance() returns, and collects the latter
RECURSIVE collect(_, _)
collect(r, type) ==
    IF ~match(r.p, {type}, FALSE, TRUE) THEN r
    ELSE LET q == advance(advance(r.p))
         IN collect([p |-> q, node |-> Append(r.node, previous(q))], type)

proseStatement(p) ==
    LET ProseStatement(content) == [content |-> content, kind |-> "Prose"]
    IN then(collect([p |-> p, node |-> <<>>], "Prose"), ProseStatement)

commentBlock(p) ==
    LET CommentBlock(content) == [content |-> content, kind |-> "Comment"]
    IN then(collect([p |-> p, node |-> <<>>], "Comment"), CommentBlock)

setVariable(p) ==
    LET named(q) ==
            LET SetVariableStatement(expr) ==
                    [kind |-> "SetVariable", variable |-> previous(q),
                     expression |-> expr, token |-> previous(p)]
                ended(r) == [p |-> expectLineChange(r.p), node |-> r.node]
            IN IF q.thrown THEN [p |-> q, node |-> <<>>]
               ELSE ended(then(expression(q), SetVariableStatement))
    IN named(consume(p, "Identifier", "Expect variable name"))

elseStatement(p) ==
    LET ElseStatement(body) ==
            [kind |-> "Else", token |-> previous(p), body |-> body]
    IN then(scopeBody([p |-> p, node |-> <<>>], previous(p).indent),
            ElseStatement)

elseIfStatement(p) ==
    LET conditioned(e) ==
            LET ElseIfStatement(body) ==
                    [kind |-> "ElseIf", token |-> previous(p), body |-> body,
                     expression |-> e.node]
            IN IF e.p.thrown THEN e
               ELSE then(scopeBody([p |-> e.p, node |-> <<>>],
                                   previous(p).indent),
                         ElseIfStatement)
    IN conditioned(expression(p))

ifStatement(p) ==
    LET token == previous(p)
        \* while (match(["ElseIf"]) && siblingScope(token.indent)): match
        \* advances before siblingScope looks at the token after the ElseIf
        RECURSIVE elseIfs(_)
        elseIfs(r) ==
            IF r.p.thrown \/ ~match(r.p, {"ElseIf"}, FALSE, FALSE) THEN r
            ELSE IF ~siblingScope(advance(r.p), token.indent)
            THEN [p |-> advance(r.p), node |-> r.node]
            ELSE LET push(s) == Append(r.node, s)
                 IN elseIfs(then(elseIfStatement(advance(r.p)), push))
        else(q) ==
            IF ~match(q, {"Else"}, FALSE, FALSE)
            THEN [p |-> q, node |-> <<>>]
            ELSE IF ~siblingScope(advance(q), token.indent)
            THEN [p |-> advance(q), node |-> <<>>]
            ELSE LET some(s) == <<s>>
                 IN then(elseStatement(advance(q)), some)
        branches(e, b, ei) ==
            LET IfStatement(elseBranch) ==
                    [kind |-> "If", token |-> token, body |-> b.node,
                     expression |-> e.node, elseBranch |-> elseBranch,
                     elseIfBranches |-> ei.node]
            IN IF ei.p.thrown THEN ei ELSE then(else(ei.p), IfStatement)
        bodied(e, b) ==
            IF b.p.thrown THEN b
            ELSE branches(e, b, elseIfs([p |-> b.p, node |-> <<>>]))
        conditioned(e) ==
            IF e.p.thrown THEN e
            ELSE bodied(e, scopeBody([p |-> expectLineChange(e.p),
                                      node |-> <<>>], token.indent))
    IN conditioned(expression(p))

selectableIf(p) ==
    LET SelectableIfStatement(e) ==
            [kind |-> "SelectableIf", token |-> previous(p), expression |-> e]
    IN then(expression(p), SelectableIfStatement)

ReusePrefixes == {"DisableReuse", "HideReuse", "AllowReuse", "SelectableIf"}

choiceOption(p) ==
    LET \* the while loop over the prefixes; the node holds the four locals
        RECURSIVE prefixes(_)
        prefixes(r) ==
            IF r.p.thrown \/ ~match(r.p, ReusePrefixes, FALSE, FALSE) THEN r
            ELSE LET q == advance(r.p)
                     taken == advance(advance(q))
                     selected(s) == [r.node EXCEPT !.selectableIf = <<s>>]
                 IN IF match(q, {"DisableReuse"}, FALSE, FALSE)
                    THEN prefixes([p |-> taken,
                                   node |-> [r.node EXCEPT !.disableReuse = TRUE]])
                    ELSE IF match(q, {"HideReuse"}, FALSE, FALSE)
                    THEN prefixes([p |-> taken,
                                   node |-> [r.node EXCEPT !.hideReuse = TRUE]])
                    ELSE IF match(q, {"AllowReuse"}, FALSE, FALSE)
                    THEN prefixes([p |-> taken,
                                   node |-> [r.node EXCEPT !.allowReuse = TRUE]])
                    ELSE IF match(q, {"SelectableIf"}, FALSE, FALSE)
                    THEN prefixes(then(selectableIf(advance(q)), selected))
                    ELSE prefixes([p |-> q, node |-> r.node])
        option(r) ==
            LET ChoiceOptionStatement(body) ==
                    [kind |-> "ChoiceOption", token |-> previous(r.p),
                     body |-> body,
                     reuse |-> IF r.node.disableReuse THEN "disable_reuse"
                               ELSE IF r.node.hideReuse THEN "hide_reuse"
                               ELSE IF r.node.allowReuse THEN "allow_reuse"
                               ELSE Null,
                     selectableIf |->
                         IF r.node.selectableIf = <<>> THEN <<>>
                         ELSE <<r.node.selectableIf[1].expression>>]
            IN IF r.p.thrown THEN r
               ELSE then(scopeBody([p |-> r.p, node |-> <<>>],
                                   previous(r.p).indent),
                         ChoiceOptionStatement)
    IN option(prefixes([p |-> p,
                        node |-> [disableReuse |-> FALSE, hideReuse |-> FALSE,
                                  allowReuse |-> FALSE, selectableIf |-> <<>>]]))

choiceStatement(p) ==
    LET token == previous(p)
        RECURSIVE body(_)
        body(r) ==
            LET push(s) == Append(r.node, s)
            IN IF r.p.thrown \/ ~childScope(r.p, token.indent) THEN r
               ELSE IF match(r.p, {"ChoiceOption"} \cup ReusePrefixes, FALSE, FALSE)
               THEN body(then(choiceOption(advance(r.p)), push))
               ELSE IF match(r.p, {"FakeChoice"}, FALSE, FALSE)
               THEN body([p |-> advance(r.p), node |-> r.node])
               ELSE IF match(r.p, {"If"}, FALSE, FALSE)
               THEN body(then(ifStatement(advance(r.p)), push))
               ELSE IF match(r.p, {"Comment"}, FALSE, FALSE)
               THEN body(then(commentBlock(advance(r.p)), push))
               ELSE [p |-> error(r.p, peek(r.p),
                         "Expected choice option or conditional branch in choice statement."),
                     node |-> r.node]
        ChoiceStatement(b) == [kind |-> "Choice", token |-> token, body |-> b]
    IN then(body([p |-> p, node |-> <<>>]), ChoiceStatement)

\* the statement kinds that no token stream of this model starts (variable
\* declarations, gosub, return, goto, label, page_break, input_text) are not
\* listed
StatementKeywords ==
    {"SceneStart", "CreateVariable", "CreateTempVariable", "SetVariable",
     "Prose", "Choice", "ChoiceOption", "If", "GoSub", "GoSubScene", "Return",
     "GotoLabel", "GotoScene", "Label", "PageBreak", "InputText", "Comment"}

statement(p) ==
    LET type == peek(p).type
        \* scene(): while (match(["SceneStart"])) advance(); then statement()
        RECURSIVE scene(_)
        scene(q) ==
            IF match(q, {"SceneStart"}, FALSE, FALSE)
            THEN scene(advance(advance(q)))
            ELSE statement(q)
    IN IF isAtEnd(p) \/ type \notin StatementKeywords
       THEN [p |-> error(p, peek(p), "Unknown statement block starting"),
             node |-> <<>>]
       ELSE CASE type = "SceneStart" -> scene(advance(p))
              [] type = "SetVariable" -> setVariable(advance(p))
              [] type = "Prose" -> proseStatement(advance(p))
              [] type = "Choice" -> choiceStatement(advance(p))
              [] type = "ChoiceOption" -> choiceOption(advance(p))
              [] type = "If" -> ifStatement(advance(p))
              [] type = "Comment" -> commentBlock(advance(p))

\* ------------------------------------------------ analysis (claude/util.ts)
\* A pass is given the Graph object of the machine, by reference; it is the
\* record [graph, result]: the graph as the pass leaves it and what it returns.
graphOf(m) ==
    [nodes |-> m.nodes, edges |-> m.edges, entryPoints |-> m.entryPoints,
     labels |-> m.labels]

\* graph.nodes.keys(), in insertion order
nodeIds(graph) == [k \in 1..Len(graph.nodes) |-> graph.nodes[k].id]

\* path.findIndex(id => id === nodeId), 1-based
findIndex(path, nodeId) ==
    CHOOSE k \in 1..Len(path) :
        path[k] = nodeId /\ \A j \in 1..(k - 1) : path[j] # nodeId

\* detectCycles that looks at the visited set alone
detectCycles_NoRecStack(graph) == [graph |-> graph, result |-> <<>>]

\* detectCycles that takes the edges off the graph as it follows them
detectCycles_ConsumesEdges(graph) ==
    [graph |-> [graph EXCEPT !.edges = <<>>], result |-> <<>>]

detectCycles(graph) ==
    LET RECURSIVE dfs(_, _, _)
        RECURSIVE explore(_, _, _, _)
        RECURSIVE start(_, _)
        \* st is [cycles, visited, recStack]
        dfs(st, nodeId, path) ==
            IF nodeId \in st.recStack
            THEN [st EXCEPT !.cycles =
                     Append(@, SubSeq(path, findIndex(path, nodeId), Len(path))
                               \o <<nodeId>>)]
            ELSE IF nodeId \in st.visited THEN st
            ELSE LET left(explored) ==
                         [explored EXCEPT !.recStack = @ \ {nodeId}]
                 IN left(explore([st EXCEPT !.visited = @ \cup {nodeId},
                                            !.recStack = @ \cup {nodeId}],
                                 nodeId, Append(path, nodeId), 1))
        \* for (const edge of graph.edges), from the i-th edge on
        explore(st, nodeId, path, i) ==
            IF i > Len(graph.edges) THEN st
            ELSE explore(IF graph.edges[i].source = nodeId
                         THEN dfs(st, graph.edges[i].target, path) ELSE st,
                         nodeId, path, i + 1)
        \* for (const nodeId of graph.nodes.keys()), from the k-th node on
        start(st, k) ==
            IF k > Len(graph.nodes) THEN st
            ELSE start(dfs(st, graph.nodes[k].id, <<>>), k + 1)
    IN [graph |-> graph,
        result |-> start([cycles |-> <<>>, visited |-> {}, recStack |-> {}],
                         1).cycles]

findUnreachableNodes(graph) ==
    LET RECURSIVE dfs(_, _)
        RECURSIVE visit(_, _, _)
        RECURSIVE from(_, _)
        dfs(visited, nodeId) ==
            IF nodeId \in visited THEN visited
            ELSE visit(visited \cup {nodeId}, nodeId, 1)
        visit(visited, nodeId, i) ==
            IF i > Len(graph.edges) THEN visited
            ELSE visit(IF graph.edges[i].source = nodeId
                       THEN dfs(visited, graph.edges[i].target) ELSE visited,
                       nodeId, i + 1)
        \* for (const entryPoint of entryPoints): the set visited does not
        \* depend on their order
        from(visited, entryPoints) ==
            IF entryPoints = {} THEN visited
            ELSE LET entryPoint == CHOOSE e \in entryPoints : TRUE
                 IN from(dfs(visited, entryPoint), entryPoints \ {entryPoint})
        unreachable(visited) ==
            LET unvisited(nodeId) == nodeId \notin visited
            IN SelectSeq(nodeIds(graph), unvisited)
    IN [graph |-> graph,
        result |-> unreachable(
            from({}, {graph.entryPoints[scene] :
                         scene \in DOMAIN graph.entryPoints}))]

\* condition.match(/\b[a-zA-Z_]\w*\b/g) || [] for the conditions of the
\* scripts: each is one word, and the model holds it as a string
varMatches(condition) ==
    CASE condition = "c1" -> <<<<"c", "1">>>>
      [] condition = "c2" -> <<<<"c", "2">>>>
      [] OTHER -> <<>>

ConditionKeywords ==
    {<<"a", "n", "d">>, <<"o", "r">>, <<"n", "o", "t">>,
     <<"t", "r", "u", "e">>, <<"f", "a", "l", "s", "e">>}

\* the Map of extractVariables is the sequence of its entries, in insertion
\* order: [name, declarations, usages, assignments]
extractVariables(graph) ==
    LET ensure(variables, varName) ==
            IF \E k \in 1..Len(variables) : variables[k].name = varName
            THEN variables
            ELSE Append(variables,
                        [name |-> varName, declarations |-> <<>>,
                         usages |-> <<>>, assignments |-> <<>>])
        push(variables, varName, field, nodeId) ==
            [k \in 1..Len(variables) |->
                IF variables[k].name = varName
                THEN [variables[k] EXCEPT ![field] = Append(@, nodeId)]
                ELSE variables[k]]
        includes(variables, varName, nodeId) ==
            \E k \in 1..Len(variables) :
                /\ variables[k].name = varName
                /\ \E j \in 1..Len(variables[k].usages) :
                       variables[k].usages[j] = nodeId
        RECURSIVE nodes(_, _)
        nodes(variables, k) ==
            IF k > Len(graph.nodes) THEN variables
            ELSE LET node == graph.nodes[k]
                     varName == node.attributes.variableName
                 IN nodes(IF node.type = "variable"
                          THEN push(ensure(variables, varName), varName,
                                    "declarations", node.id)
                          ELSE IF node.type = "set"
                          THEN push(ensure(variables, varName), varName,
                                    "assignments", node.id)
                          ELSE variables,
                          k + 1)
        RECURSIVE words(_, _, _, _)
        words(variables, matches, source, j) ==
            IF j > Len(matches) THEN variables
            ELSE words(IF matches[j] \in ConditionKeywords THEN variables
                       ELSE IF includes(ensure(variables, matches[j]),
                                        matches[j], source)
                       THEN ensure(variables, matches[j])
                       ELSE push(ensure(variables, matches[j]), matches[j],
                                 "usages", source),
                       matches, source, j + 1)
        RECURSIVE edges(_, _)
        edges(variables, i) ==
            IF i > Len(graph.edges) THEN variables
            ELSE edges(IF graph.edges[i].attributes.condition # ""
                       THEN words(variables,
                                  varMatches(graph.edges[i].attributes.condition),
                                  graph.edges[i].source, 1)
                       ELSE variables,
                       i + 1)
    IN [graph |-> graph, result |-> edges(nodes(<<>>, 1), 1)]

\* a warning is [kind, count, ids, name]: the kind of the message, and the
\* number, the node ids and the variable name in it
validateGraph(graph) ==
    LET warning(kind, count, ids, name) ==
            <<[kind |-> kind, count |-> count, ids |-> ids, name |-> name]>>
        deadEnd(nodeId) ==
            \E k \in 1..Len(graph.nodes) :
                /\ graph.nodes[k].id = nodeId
                /\ graph.nodes[k].type \notin {"finish", "goto", "gosub"}
                /\ ~\E i \in 1..Len(graph.edges) :
                        graph.edges[i].source = nodeId
        undeclared(varInfo) ==
            /\ Len(varInfo.declarations) = 0
            /\ Len(varInfo.usages) > 0 \/ Len(varInfo.assignments) > 0
        RECURSIVE used(_, _)
        used(variables, k) ==
            IF k > Len(variables) THEN <<>>
            ELSE (IF undeclared(variables[k])
                  THEN warning("usedBeforeDeclaration", 1, <<>>, variables[k].name)
                  ELSE <<>>)
                 \o used(variables, k + 1)
        ends(g) ==
            LET deadEnds == SelectSeq(nodeIds(g), deadEnd)
            IN IF Len(deadEnds) > 0
               THEN warning("deadEnds", Len(deadEnds), <<>>, <<>>) ELSE <<>>
        variables(warnings, r) ==
            [graph |-> r.graph,
             result |-> [errors |-> <<>>,
                         warnings |-> warnings \o used(r.result, 1)
                                      \o ends(r.graph)]]
        cycles(warnings, r) ==
            variables(warnings
                      \o (IF Len(r.result) > 0
                          THEN warning("cycles", Len(r.result), <<>>, <<>>)
                          ELSE <<>>),
                      extractVariables(r.graph))
        unreachable(r) ==
            cycles(IF Len(r.result) > 0
                   THEN warning("unreachable", Len(r.result),
                                SubSeq(r.result, 1,
                                       IF Len(r.result) > 5 THEN 5
                                       ELSE Len(r.result)),
                                <<>>)
                   ELSE <<>>,
                   detectCycles(r.graph))
    IN unreachable(findUnreachableNodes(graph))

\* no analysis pass has been called: the result of each is empty
NoAnalysis ==
    [called |-> FALSE, pass |-> "", detectCycles |-> <<>>,
     findUnreachableNodes |-> <<>>, extractVariables |-> <<>>,
     validateGraph |-> [errors |-> <<>>, warnings |-> <<>>]]

\* the expressions the tokenizer is given: every string of up to MaxExprLen of
\* these characters, and the markers with a character before or after them
ExprChars == {" ", "1", "\"", "\\", "%", "+", "=", "!", "@", "$", "{", "a", "#"}

Markers ==
    {<<"%", "+">>, <<"%", "-">>, <<">", "=">>, <<"<", "=">>, <<"!", "=">>,
     <<"@", "{">>, <<"$", "{">>, <<"$", "!", "{">>, <<"$", "!", "!", "{">>}

Expressions ==
    UNION {[1..n -> ExprChars] : n \in 0..MaxExprLen}
    \cup Markers
    \cup {m \o <<c>> : m \in Markers, c \in {"a", "1"}}
    \cup {<<c>> \o m : m \in Markers, c \in {"a", "1"}}

\* tokenizeExpressionString before its call: the expression is the argument it
\* is going to be given
notCalled(text) ==
    [expression |-> text, cursor |-> 0, tokens |-> <<>>, pc |-> "idle"]

\* ---- execute (index.ts): the traversal of the token flows of the scenes
\* A scene is [name, flow]; a token of a flow is FlowToken(...), with "" for a
\* field the token does not have. A token is known by where it is: <<scene,
\* index>>, both counted from 0 as in the source, and NoToken is undefined.
FlowToken(type, indent, name, target, targetLabel) ==
    [type |-> type, indent |-> indent, name |-> name, target |-> target,
     targetLabel |-> targetLabel]

NoToken == <<-1, -1>>

\* execute before its loop, with the scenes parseScenesToTokensInPlace gave it
notExecuted(scenes) ==
    [scenes |-> scenes, pc |-> "idle", endingReached |-> FALSE,
     sceneIndex |-> 0, flowIndex |-> 0, currentScene |-> 0,
     choiceIndent |-> 0, inChoice |-> FALSE,
     fakeChoiceIndent |-> 0, inFakeChoice |-> FALSE,
     edges |-> <<>>, visited |-> <<>>, thrown |-> FALSE]

\* scenes[i] is not undefined
isScene(t, i) == i >= 0 /\ i < Len(t.scenes)

flowOf(t, i) == t.scenes[i + 1].flow

\* flow[index] of scene i as a token of an edge
tokenAt(t, i, index) ==
    IF index >= 0 /\ index < Len(flowOf(t, i)) THEN <<i, index>> ELSE NoToken

\* flow.findIndex(token => token.type === 'Label' && token.name === name)
findLabelIndex(flow, name) ==
    LET hits == {k \in 1..Len(flow) :
                    flow[k].type = "Label" /\ flow[k].name = name}
    IN IF hits = {} THEN -1
       ELSE (CHOOSE k \in hits : \A l \in hits : k <= l) - 1

\* scenes.findIndex(scene => scene.name === name)
findSceneIndex(scenes, name) ==
    LET hits == {k \in 1..Len(scenes) : scenes[k].name = name}
    IN IF hits = {} THEN -1
       ELSE (CHOOSE k \in hits : \A l \in hits : k <= l) - 1

RECURSIVE nextScene(_, _)
\* the do-while that looks for the next scene with a flow: the sceneIndex
\* after it
nextScene(t, sceneIndex) ==
    LET n == sceneIndex + 1
    IN IF (~isScene(t, n) \/ Len(flowOf(t, n)) = 0) /\ n <= Len(t.scenes)
       THEN nextScene(t, n) ELSE n

\* one iteration of the loop of execute, entered with endingReached false
traverse(t) ==
    LET ended(u) == [u EXCEPT !.endingReached = TRUE]
        threw(u) == [u EXCEPT !.thrown = TRUE]
        body(u) ==
            LET flow == flowOf(u, u.currentScene)
                currentToken == flow[u.flowIndex + 1]
                here == <<u.currentScene, u.flowIndex>>
                isVisited == \E k \in 1..Len(u.visited) : u.visited[k] = here
                v == [u EXCEPT
                         !.inChoice =
                             IF currentToken.indent < u.choiceIndent
                             THEN FALSE ELSE @,
                         !.inFakeChoice =
                             IF currentToken.indent < u.fakeChoiceIndent
                             THEN FALSE ELSE @]
                step == [v EXCEPT !.flowIndex = @ + 1]
                targetLabelIndex == findLabelIndex(flow, currentToken.target)
                targetSceneIndex == findSceneIndex(u.scenes, currentToken.target)
                sceneLabelIndex ==
                    IF currentToken.targetLabel = "" THEN 0
                    ELSE findLabelIndex(flowOf(u, targetSceneIndex),
                                        currentToken.targetLabel)
            IN CASE currentToken.type = "Choice" ->
                        [v EXCEPT !.choiceIndent = currentToken.indent + 1,
                                  !.inChoice = TRUE]
                 [] currentToken.type = "FakeChoice" ->
                        [v EXCEPT !.fakeChoiceIndent = currentToken.indent + 1,
                                  !.inFakeChoice = TRUE]
                 [] currentToken.type = "Ending" ->
                        [v EXCEPT !.edges = Append(@, [from |-> here,
                                                       to |-> NoToken]),
                                  !.endingReached = TRUE]
                 [] currentToken.type = "Finish" ->
                        IF ~isScene(u, u.sceneIndex + 1) THEN threw(v)
                        ELSE [v EXCEPT
                                 !.edges = Append(@,
                                     [from |-> here,
                                      to |-> tokenAt(u, u.sceneIndex + 1, 0)]),
                                 !.sceneIndex = @ + 1,
                                 !.flowIndex = 0,
                                 !.currentScene = u.sceneIndex + 1,
                                 !.visited = Append(@, here)]
                 [] currentToken.type = "GotoLabel" ->
                        IF isVisited \/ targetLabelIndex = -1 THEN step
                        ELSE [v EXCEPT
                                 !.edges = Append(@,
                                     [from |-> here,
                                      to |-> <<u.currentScene, targetLabelIndex>>]),
                                 !.flowIndex = targetLabelIndex,
                                 !.visited = Append(@, here)]
                 [] currentToken.type = "GotoScene" ->
                        IF isVisited \/ targetSceneIndex = -1 THEN step
                        ELSE IF sceneLabelIndex = -1 THEN threw(v)
                        ELSE [v EXCEPT
                                 !.edges = Append(@,
                                     [from |-> here,
                                      to |-> tokenAt(u, targetSceneIndex,
                                                     sceneLabelIndex)]),
                                 !.sceneIndex = targetSceneIndex,
                                 !.flowIndex = sceneLabelIndex,
                                 !.visited = Append(@, here)]
                 [] OTHER -> [step EXCEPT !.visited = Append(@, here)]
        entered(u) == IF ~isScene(u, u.currentScene) THEN ended(u) ELSE body(u)
        moved(n) ==
            LET u == [t EXCEPT !.sceneIndex = n, !.flowIndex = 0,
                               !.currentScene = n]
            IN IF n = Len(t.scenes) THEN ended(u) ELSE entered(u)
    IN IF ~isScene(t, t.currentScene) THEN threw(t)
       ELSE IF t.flowIndex >= Len(flowOf(t, t.currentScene))
       THEN IF t.sceneIndex >= Len(t.scenes) THEN ended(t)
            ELSE moved(nextScene(t, t.sceneIndex))
       ELSE entered(t)

VARIABLES
    sm,        \* the ChoiceScriptStateMachine instance
    exists,    \* the provider: the scenes hasScene reports
    content,   \* the provider: scene -> the lines of it read so far
    calls,     \* the processScene invocations: [scene, pc, by]
    game,      \* the processGame invocation: [pc, all, count, call]
    errorLog,  \* console.error of processScene's catch: the scenes that threw
    sceneLines,  \* scanScene: the lines of the scene it scans
    context,     \* scanScene: its ScannerContext
    tokens,      \* scanScene: the tokens pushed so far; <<>> when it is not called
    parser,      \* the Parser instance; its tokens are <<>> before construction
    parsed,      \* parse(): [statements, returned]
    tokenizer,   \* tokenizeExpressionString: [expression, cursor, tokens, pc]
    analysis,    \* the results of the analysis passes called last
    traversal    \* execute of index.ts: its scenes and the locals of its loop

builderVars == <<sm, exists, content, calls, game, errorLog>>

scannerVars == <<sceneLines, context, tokens>>

parserVars == <<parser, parsed>>

\* the variables of the scanner's and the parser's side
frontVars == <<parserVars, tokenizer, analysis, traversal>>

vars == <<builderVars, scannerVars, frontVars>>

\* every component but the tokenizer, after construction
Constructed ==
    /\ sm = resetState
    /\ exists \in SUBSET SceneNames
    /\ content = [s \in SceneNames |-> <<>>]
    /\ calls = <<>>
    /\ game = [pc |-> "idle", all |-> FALSE, count |-> 0, call |-> 0]
    /\ errorLog = <<>>
    /\ sceneLines = <<>>
    /\ context = newContext
    /\ tokens = <<>>
    /\ parser = newParser(<<>>)
    /\ parsed = [statements |-> <<>>, returned |-> FALSE]
    /\ analysis = NoAnalysis

Init ==
    /\ Constructed
    /\ tokenizer = notCalled(<<>>)
    /\ traversal = notExecuted(<<>>)

\* processContent is synchronous: while one runs, nothing else does
Running == \E i \in 1..Len(calls) : calls[i].pc = "content"

LinesRead == Len(content["startup"]) + Len(content["a"]) + Len(content["b"])

\* processScene is called: it runs to its first await, of hasScene
callProcessScene(cs, sceneName, by) ==
    Append(cs, [scene |-> sceneName, pc |-> "hasScene", by |-> by])

\* processScene that leaves currentNode null for the first scene
processSceneStart_NoCurrent(m, sceneName) ==
    LET m1 == [m EXCEPT !.processedScenes = @ \cup {sceneName},
                        !.position = [file |-> sceneName, line |-> 0]]
        entryNodeId == NewId(m1)
        m2 == createNode(m1, "scene_entry", NoAttr)
    IN [m2 EXCEPT !.entryPoints = MapSet(@, sceneName, entryNodeId)]

\* processScene from the answer of hasScene to the await of loadScene
processSceneStart(m, sceneName) ==
    LET m1 == [m EXCEPT !.processedScenes = @ \cup {sceneName},
                        !.position = [file |-> sceneName, line |-> 0]]
        entryNodeId == NewId(m1)
        m2 == createNode(m1, "scene_entry", NoAttr)
        m3 == [m2 EXCEPT !.entryPoints = MapSet(@, sceneName, entryNodeId)]
    IN IF m3.currentNode = Null
       THEN [m3 EXCEPT !.currentNode = entryNodeId] ELSE m3

\* processScene without its "already processed" check
processSceneProceeds_NoSkip(m, sceneName, has) == has

\* does processScene go on to load the scene?
processSceneProceeds(m, sceneName, has) ==
    has /\ sceneName \notin m.processedScenes

\* processGame: resetState, then processScene(entryScene) up to its first await
ProcessGame(all) ==
    /\ game.pc = "idle"
    /\ calls = <<>>
    /\ sm' = resetState
    /\ calls' = callProcessScene(calls, EntryScene, "game")
    /\ game' = [pc |-> "awaitScene", all |-> all, count |-> 0, call |-> 1]
    /\ UNCHANGED <<exists, content, errorLog>>
    /\ UNCHANGED <<scannerVars, frontVars>>

\* another caller calls processScene while the machine is in use
ExternalCall(sceneName) ==
    /\ ~Running
    /\ Cardinality({i \in 1..Len(calls) : calls[i].by = "ext"}) < MaxCalls
    /\ calls' = callProcessScene(calls, sceneName, "ext")
    /\ UNCHANGED <<sm, exists, content, game, errorLog>>
    /\ UNCHANGED <<scannerVars, frontVars>>

\* hasScene answers: processScene returns, or marks the scene and awaits loadScene
ProcessSceneResume(i) ==
    /\ ~Running
    /\ calls[i].pc = "hasScene"
    /\ IF processSceneProceeds(sm, calls[i].scene, calls[i].scene \in exists)
       THEN /\ sm' = processSceneStart(sm, calls[i].scene)
            /\ calls' = [calls EXCEPT ![i].pc = "loadScene"]
       ELSE /\ calls' = [calls EXCEPT ![i].pc = "done"]
            /\ UNCHANGED sm
    /\ UNCHANGED <<exists, content, game, errorLog>>
    /\ UNCHANGED <<scannerVars, frontVars>>

\* loadScene answers: processContent starts
LoadSceneResolves(i) ==
    /\ ~Running
    /\ calls[i].pc = "loadScene"
    /\ calls' = [calls EXCEPT ![i].pc = "content"]
    /\ UNCHANGED <<sm, exists, content, game, errorLog>>
    /\ UNCHANGED <<scannerVars, frontVars>>

\* lines.forEach: position.line = index + 1; processLine(line). A throw leaves
\* processContent and is caught and logged by processScene, which returns.
ProcessLine(i, line) ==
    /\ calls[i].pc = "content"
    /\ LET scene == calls[i].scene
           m == processLine(
                    [sm EXCEPT !.position.line = Len(content[scene]) + 1], line)
       IN /\ content' = [content EXCEPT ![scene] = Append(@, line)]
          /\ IF m.thrown
             THEN /\ sm' = [m EXCEPT !.thrown = FALSE]
                  /\ errorLog' = Append(errorLog, scene)
                  /\ calls' = [calls EXCEPT ![i].pc = "done"]
             ELSE /\ sm' = m
                  /\ UNCHANGED <<errorLog, calls>>
    /\ UNCHANGED <<exists, game>>
    /\ UNCHANGED <<scannerVars, frontVars>>

\* the end of the lines: processContent flushes the text buffer and returns
EndContent(i) ==
    /\ calls[i].pc = "content"
    /\ sm' = flushTextBuffer(sm)
    /\ calls' = [calls EXCEPT ![i].pc = "done"]
    /\ UNCHANGED <<exists, content, game, errorLog>>
    /\ UNCHANGED <<scannerVars, frontVars>>

RECURSIVE firstSceneList(_, _)
\* the scenes of the first scene_list node, in the order of graph.nodes
firstSceneList(nodes, i) ==
    IF i > Len(nodes) THEN <<>>
    ELSE IF nodes[i].type = "scene_list" THEN nodes[i].attributes.scenes
    ELSE firstSceneList(nodes, i + 1)

RECURSIVE firstUnprocessed(_, _)
\* the first name of sceneRefs that is not in processedScenes, "" when none
firstUnprocessed(refs, processed) ==
    IF refs = <<>> THEN ""
    ELSE IF Head(refs) \notin processed THEN Head(refs)
    ELSE firstUnprocessed(Tail(refs), processed)

\* the scene one iteration of processAllLinkedScenes processes, "" when none
nextLinkedScene(m) ==
    firstUnprocessed(firstSceneList(m.nodes, 1), m.processedScenes)

\* one iteration of the do-while of processAllLinkedScenes, up to its await
linkedIteration ==
    LET sceneName == nextLinkedScene(sm)
    IN IF sceneName # ""
       THEN /\ calls' = callProcessScene(calls, sceneName, "game")
            /\ game' = [game EXCEPT !.pc = "awaitLinked",
                                    !.count = Cardinality(sm.processedScenes),
                                    !.call = Len(calls) + 1]
       ELSE \* no await: the while condition is evaluated at once, and is false
            /\ game' = [game EXCEPT !.pc = "returned",
                                    !.count = Cardinality(sm.processedScenes)]
            /\ UNCHANGED calls

\* await processScene(entryScene) returns
GameEntryDone ==
    /\ ~Running
    /\ game.pc = "awaitScene"
    /\ calls[game.call].pc = "done"
    /\ IF game.all
       THEN linkedIteration
       ELSE game' = [game EXCEPT !.pc = "returned"] /\ UNCHANGED calls
    /\ UNCHANGED <<sm, exists, content, errorLog>>
    /\ UNCHANGED <<scannerVars, frontVars>>

\* the loop without its exit: it iterates again whatever the count
GameLinkedDone_NoExit ==
    /\ ~Running
    /\ game.pc = "awaitLinked"
    /\ calls[game.call].pc = "done"
    /\ linkedIteration
    /\ UNCHANGED <<sm, exists, content, errorLog>>
    /\ UNCHANGED <<scannerVars, frontVars>>

\* await processScene(sceneName) returns inside the loop: break, then
\* while (processedSceneCount !== this.processedScenes.size)
GameLinkedDone ==
    /\ ~Running
    /\ game.pc = "awaitLinked"
    /\ calls[game.call].pc = "done"
    /\ IF game.count # Cardinality(sm.processedScenes)
       THEN linkedIteration
       ELSE game' = [game EXCEPT !.pc = "returned"] /\ UNCHANGED calls
    /\ UNCHANGED <<sm, exists, content, errorLog>>
    /\ UNCHANGED <<scannerVars, frontVars>>

\* ------------------------------------------------------------- scanScene
\* scanScene is between its first line and its return; mode "TypeError" stands
\* for the exception that ends it when a field of undefined is read
Scanning ==
    /\ tokens # <<>>
    /\ tokens[Len(tokens)].type # "SceneEnd"
    /\ context.mode # "TypeError"

\* the while loop is in its body, at a line
InLoop == Scanning /\ context.lineNumber < Len(sceneLines)

ScanLine == sceneLines[context.lineNumber + 1]
ScanChar == ScanLine[context.position + 1]

\* the loop body is at its switch, in the given mode
InMode(mode) ==
    InLoop /\ context.position < Len(ScanLine) /\ context.mode = mode

includes(line, char) == \E i \in 1..Len(line) : line[i] = char

\* proseBlockStart, set when it is undefined
startedProse(ctx) ==
    IF ctx.proseBlockStart.defined THEN ctx.proseBlockStart
    ELSE [defined |-> TRUE, position |-> ctx.position,
          lineNumber |-> ctx.lineNumber, indent |-> ctx.indent.current]

\* the scene text is split into lines and the SceneStart token is pushed
ScanScene(lines) ==
    /\ tokens = <<>>
    /\ sceneLines' = lines
    /\ context' = newContext
    /\ tokens' = <<Token("SceneStart", 0, 0, 0)>>
    /\ UNCHANGED <<builderVars, frontVars>>

\* the end of the line is reached
ScanLineEnd ==
    /\ InLoop
    /\ context.position >= Len(ScanLine)
    /\ context' = [context EXCEPT
           !.lineNumber = @ + 1,
           !.position = 0,
           !.mode = "Indentation",
           !.currentTokenStartPosition = 0,
           !.currentToken = <<>>,
           !.indent = [previous |-> context.indent.current, current |-> 0],
           !.proseBlock = IF trimString(@) # <<>> THEN Append(@, "\n") ELSE @]
    /\ UNCHANGED <<sceneLines, tokens, builderVars, frontVars>>

ScanIndentation ==
    /\ InMode("Indentation")
    /\ context' =
           IF ScanChar = "\t"
           THEN [context EXCEPT !.indent.current = @ + 2, !.position = @ + 1]
           ELSE IF ScanChar = " "
           THEN [context EXCEPT !.indent.current = @ + 1, !.position = @ + 1]
           ELSE [context EXCEPT
                    !.insideMultiLineToken =
                        IF @ /\ context.indent.current < context.indent.previous
                        THEN FALSE ELSE @,
                    !.mode = "Prose"]
    /\ UNCHANGED <<sceneLines, tokens, builderVars, frontVars>>

\* Prose mode that does not see the start of a token and waits at it
ScanProse_NoTokenStart ==
    /\ InMode("Prose")
    /\ context' =
           IF isStartOfToken(ScanChar)
           THEN [context EXCEPT !.proseBlockStart = startedProse(context)]
           ELSE [context EXCEPT !.proseBlockStart = startedProse(context),
                                !.proseBlock = Append(@, ScanChar),
                                !.position = @ + 1]
    /\ UNCHANGED <<sceneLines, tokens, builderVars, frontVars>>

ScanProse ==
    /\ InMode("Prose")
    /\ IF context.position = 0 /\ ~(includes(ScanLine, "*") \/ includes(ScanLine, "#"))
       THEN /\ context' = [context EXCEPT
                   !.proseBlockStart = startedProse(context),
                   !.proseBlock = @ \o ScanLine,
                   !.position = Len(ScanLine)]
            /\ UNCHANGED tokens
       ELSE IF isStartOfToken(ScanChar)
       THEN IF trimString(context.proseBlock) # <<>>
                  /\ ~context.proseBlockStart.defined
            THEN \* context.proseBlockStart.indent, of undefined
                 /\ context' = [context EXCEPT !.mode = "TypeError"]
                 /\ UNCHANGED tokens
            ELSE IF trimString(context.proseBlock) # <<>>
            THEN /\ tokens' = Append(tokens,
                       [Token("Prose", context.proseBlockStart.lineNumber,
                              context.proseBlockStart.position,
                              context.proseBlockStart.indent)
                           EXCEPT !.content = context.proseBlock])
                 /\ context' = [context EXCEPT
                        !.mode = "Token",
                        !.currentTokenStartPosition = context.position,
                        !.proseBlock = <<>>,
                        !.proseBlockStart.defined = FALSE]
            ELSE /\ context' = [context EXCEPT
                        !.mode = "Token",
                        !.currentTokenStartPosition = context.position]
                 /\ UNCHANGED tokens
       ELSE /\ context' = [context EXCEPT
                   !.proseBlockStart = startedProse(context),
                   !.proseBlock = Append(@, ScanChar),
                   !.position = @ + 1]
            /\ UNCHANGED tokens
    /\ UNCHANGED <<sceneLines, builderVars, frontVars>>

ScanProseToEOL ==
    /\ InMode("ProseToEOL")
    /\ tokens' = Append(tokens,
           [Token("Prose", context.lineNumber, context.position,
                  context.indent.current)
               EXCEPT !.content = substring(ScanLine, context.position,
                                            Len(ScanLine))])
    /\ context' = [context EXCEPT !.proseBlock = <<>>,
                                  !.position = Len(ScanLine),
                                  !.mode = "Prose"]
    /\ UNCHANGED <<sceneLines, builderVars, frontVars>>

ScanExpression ==
    /\ InMode("Expression")
    /\ IF isStartOfToken(ScanChar)
       THEN /\ tokens' = tokens \o tokenizeExpressionString(
                   context.currentToken, context.lineNumber,
                   context.currentTokenStartPosition, context.indent.current)
            /\ context' = [context EXCEPT
                   !.mode = "Token",
                   !.currentTokenStartPosition = context.position,
                   !.currentToken = <<>>]
       ELSE LET start == IF context.currentTokenStartPosition = undefined
                         THEN context.position
                         ELSE context.currentTokenStartPosition
                currentToken == Append(context.currentToken, ScanChar)
            IN /\ tokens' =
                      IF context.position = Len(ScanLine) - 1
                      THEN tokens \o tokenizeExpressionString(
                               currentToken, context.lineNumber, start,
                               context.indent.current)
                      ELSE tokens
               /\ context' = [context EXCEPT
                      !.currentTokenStartPosition = start,
                      !.currentToken = currentToken,
                      !.position = @ + 1]
    /\ UNCHANGED <<sceneLines, builderVars, frontVars>>

ScanToken ==
    /\ InMode("Token")
    /\ LET handled == handleToken(
               [context EXCEPT !.currentToken = Append(@, ScanChar)])
       IN /\ tokens' = tokens \o handled.token
          /\ context' = [handled.context EXCEPT !.position = @ + 1]
    /\ UNCHANGED <<sceneLines, builderVars, frontVars>>

\* the rest of the line is the value of the token pushed last
ScanComment ==
    /\ InMode("Comment")
    /\ tokens' = [tokens EXCEPT ![Len(tokens)].value =
                      substring(ScanLine, context.position + 1, Len(ScanLine))]
    /\ context' = [context EXCEPT !.currentToken = <<>>,
                                  !.currentTokenStartPosition = undefined,
                                  !.position = Len(ScanLine)]
    /\ UNCHANGED <<sceneLines, builderVars, frontVars>>

\* the rest of the line is the rawText of the token pushed last
ScanChoiceOption ==
    /\ InMode("ChoiceOption")
    /\ LET rawText == substring(ScanLine, context.position, Len(ScanLine))
       IN tokens' = [tokens EXCEPT
              ![Len(tokens)].rawText = rawText,
              ![Len(tokens)].hasMultiReplace =
                  indexOf(rawText, <<"@", "{">>) # -1]
    /\ context' = [context EXCEPT !.currentToken = <<>>,
                                  !.currentTokenStartPosition = undefined,
                                  !.position = Len(ScanLine)]
    /\ UNCHANGED <<sceneLines, builderVars, frontVars>>

\* the loop ends: the SceneEnd token is pushed and the tokens are returned
ScanReturn ==
    /\ Scanning
    /\ context.lineNumber >= Len(sceneLines)
    /\ tokens' = Append(tokens, Token("SceneEnd", Len(sceneLines), 0, 0))
    /\ UNCHANGED <<sceneLines, context, builderVars, frontVars>>

\* ------------------------------------------------------------ new Parser
\* the constructor, given the tokens of a scene
Parser(stream) ==
    /\ parser.tokens = <<>>
    /\ parser' = newParser(stream)
    /\ UNCHANGED <<parsed, builderVars, scannerVars, tokenizer, analysis, traversal>>

\* the constructor, given the tokens scanScene has returned (parser/index.ts
\* reads them from the file the scanner's output was saved in)
ParseScanned ==
    /\ tokens # <<>>
    /\ tokens[Len(tokens)].type = "SceneEnd"
    /\ Parser(tokens)

\* parse() is in its loop
Parsing == parser.tokens # <<>> /\ ~parser.thrown /\ ~parsed.returned

\* one iteration of the loop of parse(): statements.push(this.statement()); a
\* throw of statement() ends parse()
ParseStatement ==
    /\ Parsing
    /\ ~isAtEnd(parser)
    /\ LET pushed(r) ==
               /\ parser' = r.p
               /\ parsed' = IF r.p.thrown THEN parsed
                            ELSE [parsed EXCEPT !.statements = r.node]
       IN pushed(pushStatement([p |-> parser, node |-> parsed.statements]))
    /\ UNCHANGED <<builderVars, scannerVars, tokenizer, analysis, traversal>>

\* parse() returns the statements
ParseReturn ==
    /\ Parsing
    /\ isAtEnd(parser)
    /\ parsed' = [parsed EXCEPT !.returned = TRUE]
    /\ UNCHANGED <<parser, builderVars, scannerVars, tokenizer, analysis, traversal>>

\* tokenizeExpressionString is called: tokens = [], cursor = 0
TokenizeExpressionString ==
    /\ tokenizer.pc = "idle"
    /\ tokenizer' = [tokenizer EXCEPT !.cursor = 0, !.tokens = <<>>,
                                      !.pc = "loop"]
    /\ UNCHANGED <<builderVars, scannerVars, parserVars, analysis, traversal>>

\* one iteration of its while loop
TokenizeIteration ==
    /\ tokenizer.pc = "loop"
    /\ tokenizer.cursor < Len(tokenizer.expression)
    /\ LET pushed(step) ==
               tokenizer' = [tokenizer EXCEPT !.cursor = step.cursor,
                                              !.tokens = @ \o step.tokens]
       IN pushed(tokenizeStep(tokenizer.expression, tokenizer.cursor, 0, 0, 0))
    /\ UNCHANGED <<builderVars, scannerVars, parserVars, analysis, traversal>>

\* the loop condition fails: return tokens
TokenizeReturn ==
    /\ tokenizer.pc = "loop"
    /\ tokenizer.cursor >= Len(tokenizer.expression)
    /\ tokenizer' = [tokenizer EXCEPT !.pc = "returned"]
    /\ UNCHANGED <<builderVars, scannerVars, parserVars, analysis, traversal>>

\* a pass of util.ts is called on the graph of the machine, between two steps
\* of the build; it returns r.result, kept in the field of analysis that has
\* the name of the pass, and leaves the graph as r.graph
analysed(pass, r) ==
    /\ ~analysis.called
    /\ ~Running
    /\ analysis' = [NoAnalysis EXCEPT !.called = TRUE, !.pass = pass,
                                      ![pass] = r.result]
    /\ sm' = [sm EXCEPT !.nodes = r.graph.nodes, !.edges = r.graph.edges,
                        !.entryPoints = r.graph.entryPoints,
                        !.labels = r.graph.labels]
    /\ UNCHANGED <<exists, content, calls, game, errorLog>>
    /\ UNCHANGED <<scannerVars, parserVars, tokenizer, traversal>>

DetectCycles == analysed("detectCycles", detectCycles(graphOf(sm)))

FindUnreachableNodes ==
    analysed("findUnreachableNodes", findUnreachableNodes(graphOf(sm)))

ExtractVariables == analysed("extractVariables", extractVariables(graphOf(sm)))

ValidateGraph == analysed("validateGraph", validateGraph(graphOf(sm)))

\* ------------------------------------------------------- execute (index.ts)
\* execute gets to its loop
Execute ==
    /\ traversal.pc = "idle"
    /\ traversal.scenes # <<>>
    /\ traversal' = [traversal EXCEPT !.pc = "loop"]
    /\ UNCHANGED <<builderVars, scannerVars, parserVars, tokenizer, analysis>>

\* one iteration of the loop; a throw ends execute
TraverseIteration ==
    /\ traversal.pc = "loop"
    /\ ~traversal.endingReached
    /\ LET after(t) ==
               traversal' = IF t.thrown THEN [t EXCEPT !.pc = "thrown"] ELSE t
       IN after(traverse(traversal))
    /\ UNCHANGED <<builderVars, scannerVars, parserVars, tokenizer, analysis>>

\* the loop has ended
ExecuteReturn ==
    /\ traversal.pc = "loop"
    /\ traversal.endingReached
    /\ traversal' = [traversal EXCEPT !.pc = "returned"]
    /\ UNCHANGED <<builderVars, scannerVars, parserVars, tokenizer, analysis>>

\* ----------------------------------------------------------- the scripts
\* The lines the scripts of a specification are made of.
AllLines ==
    {Txt(0, "t"), Txt(1, "t"), Opt(1, "o"),
     Cmd(0, "if", "c1"), Cmd(0, "elseif", "c2"), Cmd(0, "else", ""),
     Cmd(0, "endif", ""), Cmd(0, "goto", "l1"), Cmd(0, "label", "l1"),
     Cmd(0, "goto_scene", "startup"), Cmd(0, "gosub", "l1"),
     Cmd(0, "gosub_scene", "a"), Cmd(0, "return", ""), Cmd(0, "finish", ""),
     Cmd(0, "page_break", ""), Cmd(0, "choice", ""), Cmd(0, "fake_choice", ""),
     Cmd(0, "scene_list", ""), Cmd(0, "comment", ""), Cmd(0, "stat_chart", "")}

CondLines ==
    {Txt(0, "t"), Txt(1, "t"), Cmd(0, "if", "c1"), Cmd(1, "if", "c1"),
     Cmd(0, "elseif", "c2"), Cmd(0, "else", ""), Cmd(0, "endif", ""),
     Cmd(0, "gosub", "l1"), Cmd(0, "return", "")}

FlowLines ==
    {Txt(0, "t"), Cmd(0, "goto", "l1"), Cmd(0, "goto", "l2"),
     Cmd(0, "label", "l1"), Cmd(0, "finish", "")}

ChoiceLines ==
    {Cmd(0, "choice", ""), Opt(1, "A"), Opt(1, "B"), Txt(2, "t"),
     Cmd(2, "goto_scene", "a"), Cmd(2, "finish", "")}

SceneLines ==
    {Cmd(0, "scene_list", ""), Txt(1, "a"), Txt(1, "b"),
     Cmd(0, "goto_scene", "a"), Cmd(0, "goto_scene", "startup")}

\* a build of the entry scene alone
InitOne == Init /\ exists \subseteq {EntryScene}

\* no scene is built: the parser and the tokenizer are given their input directly
InitFront == Init /\ exists = {}

\* the same, with the expression the tokenizer is going to be given
InitLex ==
    /\ Constructed
    /\ exists = {}
    /\ tokenizer \in {notCalled(text) : text \in Expressions}
    /\ traversal = notExecuted(<<>>)

NextOne(Lines, Max) ==
    \/ \E all \in BOOLEAN : ProcessGame(all)
    \/ \E i \in 1..Len(calls) :
          \/ ProcessSceneResume(i)
          \/ LoadSceneResolves(i)
          \/ LinesRead < Max /\ \E line \in Lines : ProcessLine(i, line)
          \/ EndContent(i)
    \/ GameEntryDone

NextAll == NextOne(AllLines, MaxLines)
NextCond == NextOne(CondLines, MaxCondLines)
NextFlow == NextOne(FlowLines, MaxFlowLines)
NextChoice == NextOne(ChoiceLines, MaxChoiceLines)

NextScenes ==
    \/ \E all \in BOOLEAN : ProcessGame(all)
    \/ \E i \in 1..Len(calls) :
          \/ ProcessSceneResume(i)
          \/ LoadSceneResolves(i)
          \/ LinesRead < MaxSceneLines /\ \E line \in SceneLines : ProcessLine(i, line)
          \/ EndContent(i)
    \/ GameEntryDone
    \/ GameLinkedDone

\* a choice nested in the body of an option of another choice
NestLines ==
    {Cmd(0, "choice", ""), Opt(1, "A"), Cmd(2, "fake_choice", ""), Opt(3, "B"),
     Txt(4, "t"), Txt(2, "t"), Opt(1, "C")}

NextNest == NextOne(NestLines, MaxNestLines)

\* scenes with labels and jumps to them: every scene may define and use l1
JumpLines ==
    {Cmd(0, "scene_list", ""), Txt(1, "a"), Cmd(0, "label", "l1"),
     Cmd(0, "goto", "l1")}

NextJumps ==
    \/ \E all \in BOOLEAN : ProcessGame(all)
    \/ \E i \in 1..Len(calls) :
          \/ ProcessSceneResume(i)
          \/ LoadSceneResolves(i)
          \/ LinesRead < MaxJumpLines /\ \E line \in JumpLines : ProcessLine(i, line)
          \/ EndContent(i)
    \/ GameEntryDone
    \/ GameLinkedDone

\* callers that call processScene themselves, concurrently
CallLines == {Txt(0, "t"), Cmd(0, "label", "l1"), Cmd(0, "goto_scene", "a")}

NextCalls ==
    \/ \E s \in SceneNames : ExternalCall(s)
    \/ \E i \in 1..Len(calls) :
          \/ ProcessSceneResume(i)
          \/ LoadSceneResolves(i)
          \/ LinesRead < MaxCallLines /\ \E line \in CallLines : ProcessLine(i, line)
          \/ EndContent(i)

\* the scripts of *create / *temp / *set lines: the arguments are sequences of
\* characters
Names == {<<"x">>, <<"g", "o", "l", "d">>}
Values == {<<"5">>, <<"1", "0">>}
Operators == {<<>>, <<"+">>, <<"-">>, <<"%", "+">>, <<"%", "-">>}
Spacings == {<<>>, <<" ">>}

\* name, operator and value as written in a *set line: 'name value' needs
\* its space, the other forms are written with or without one
SetArg(name, operator, spacing, value) == name \o spacing \o operator \o value

SetArgs ==
    {SetArg(name, operator, spacing, value) :
        name \in Names, operator \in Operators \ {<<>>},
        spacing \in Spacings, value \in Values}
    \cup {SetArg(name, <<>>, <<" ">>, value) : name \in Names, value \in Values}

\* arguments with no name or no value
MalformedArgs == {<<>>, <<"x">>, <<"+", "5">>, <<"x", "+">>}

VarLines ==
    {Cmd(0, "set", args) : args \in SetArgs \cup MalformedArgs}
    \cup {Cmd(0, command, args) :
             command \in {"create", "temp"},
             args \in {<<"g", "o", "l", "d", " ", "1", "0">>} \cup MalformedArgs}
    \cup {Cmd(0, "finish", <<>>)}

NextVars == NextOne(VarLines, MaxVarLines)

\* options written with their prefixes before the '#': the trimmed line starts
\* with '*', so parseCommand takes the prefix for the command and the rest of
\* the line for its argument
ReusePrefixed ==
    {Cmd(1, command, "#A") :
        command \in {"hide_reuse", "disable_reuse", "allow_reuse"}}
ConditionPrefixed ==
    {Cmd(1, command, "(c1) #A") : command \in {"selectable_if", "if"}}

PrefixLines ==
    {Cmd(0, "choice", ""), Opt(1, "A"), Txt(2, "t")}
        \cup ReusePrefixed \cup ConditionPrefixed

NextPrefix == NextOne(PrefixLines, MaxPrefixLines)

\* the scenes scanScene is given, split at line ends: one to MaxScanLines
\* lines of ScanLines (split returns at least one line)
ScanLines ==
    {<<>>,
     <<"b">>,
     <<"*", "c", "h", "o", "i", "c", "e", " ", "#", "a">>,
     <<"*", "f", "i", "n", "i", "s", "h", " ", "x">>,
     <<"\t", "*", "i", "f", " ", "x", ">", "5">>,
     <<"*", "c", "o", "m", "m", "e", "n", "t", " ", "c">>,
     <<" ", "*", "s", "c", "e", "n", "e", "_", "l", "i", "s", "t">>,
     <<"*", "e", "l", "s", "e">>,
     <<"*", "r", "e", "t", "u", "r", "n">>}

Scenes == UNION {[1..n -> ScanLines] : n \in 1..MaxScanLines}

NextScan ==
    \/ tokens = <<>> /\ \E lines \in Scenes : ScanScene(lines)
    \/ ScanLineEnd
    \/ ScanIndentation
    \/ ScanProse
    \/ ScanProseToEOL
    \/ ScanExpression
    \/ ScanToken
    \/ ScanComment
    \/ ScanChoiceOption
    \/ ScanReturn

\* the token streams the parser is given. An expression 'a op b op c ...' is
\* the right-hand side of '*set x', on line 0
ExprOps ==
    {"LogicalAnd", "EqualityOperator", "GreaterThanOperator",
     "SubtractionOperator", "AdditionOperator", "DivisionOperator",
     "MultiplicationOperator"}

ExprTokens(ops) ==
    [k \in 1..(2 * Len(ops) + 1) |->
        IF k % 2 = 1
        THEN [Token("Identifier", 0, k + 1, 0)
                 EXCEPT !.value = <<(<<"a", "b", "c", "d", "e">>)[(k + 1) \div 2]>>]
        ELSE Token(ops[k \div 2], 0, k + 1, 0)]

SetStream(ops) ==
    <<Token("SceneStart", 0, 0, 0), Token("SetVariable", 0, 0, 0),
      [Token("Identifier", 0, 1, 0) EXCEPT !.value = <<"x">>]>>
    \o ExprTokens(ops) \o <<Token("SceneEnd", 1, 0, 0)>>

ExprStreams ==
    {SetStream(ops) : ops \in UNION {[1..n -> ExprOps] : n \in 0..MaxOperators}}

NextExpr ==
    \/ parser.tokens = <<>> /\ \E stream \in ExprStreams : Parser(stream)
    \/ ParseStatement
    \/ ParseReturn

\* a line of a scene as the scanner gives it: the types of its tokens, all at
\* the indent of the line
ParseLines ==
    {[indent |-> 0, types |-> <<"If", "Identifier">>],
     [indent |-> 1, types |-> <<"If", "Identifier">>],
     [indent |-> 0, types |-> <<"ElseIf", "Identifier">>],
     [indent |-> 0, types |-> <<"Else">>],
     [indent |-> 1, types |-> <<"Prose">>],
     [indent |-> 0, types |-> <<"Choice">>],
     [indent |-> 1, types |-> <<"HideReuse", "ChoiceOption">>],
     [indent |-> 1, types |-> <<"ChoiceOption">>],
     [indent |-> 2, types |-> <<"Prose">>],
     [indent |-> 0, types |-> <<"Finish">>]}

RECURSIVE LineTokens(_, _)
LineTokens(lines, i) ==
    IF i > Len(lines) THEN <<>>
    ELSE [k \in 1..Len(lines[i].types) |->
             Token(lines[i].types[k], i - 1, lines[i].indent + k - 1,
                   lines[i].indent)]
         \o LineTokens(lines, i + 1)

LineStream(lines) ==
    <<Token("SceneStart", 0, 0, 0)>> \o LineTokens(lines, 1)
    \o <<Token("SceneEnd", Len(lines), 0, 0)>>

ParseStreams ==
    {LineStream(lines) :
        lines \in UNION {[1..n -> ParseLines] : n \in 1..MaxParseLines}}

NextParse ==
    \/ parser.tokens = <<>> /\ \E stream \in ParseStreams : Parser(stream)
    \/ ParseStatement
    \/ ParseReturn

\* the scenes that are scanned and then parsed: '*set x' with an expression of
\* one operator, and lines of prose, comment, choice and finish
SetLines ==
    {<<"*", "s", "e", "t", " ", "x", " ", "1", " ", "+", " ", "2">>,
     <<"*", "s", "e", "t", " ", "x", " ", "1", " ", "-", " ", "2">>,
     <<"*", "s", "e", "t", " ", "x", " ", "1", " ", "*", " ", "2">>,
     <<"*", "s", "e", "t", " ", "x", " ", "1", " ", "/", " ", "2">>,
     <<"*", "s", "e", "t", " ", "x", " ", "1", " ", ">", " ", "2">>,
     <<"*", "s", "e", "t", " ", "x", " ", "1", " ", "<", " ", "2">>,
     <<"*", "s", "e", "t", " ", "x", " ", "1", " ", "=", " ", "2">>,
     <<"*", "s", "e", "t", " ", "x", " ", "a", " ", "a", "n", "d", " ", "b">>,
     <<"*", "s", "e", "t", " ", "x", " ", "a", " ", "o", "r", " ", "b">>,
     <<"*", "s", "e", "t", " ", "x", " ", "n", "o", "t", " ", "a">>}

PipeLines ==
    SetLines \cup {<<"b">>, <<"*", "c", "o", "m", "m", "e", "n", "t", " ", "c">>, <<"*", "c", "h", "o", "i", "c", "e", " ", "#", "a">>,
                        <<"*", "f", "i", "n", "i", "s", "h", " ", "x">>}

PipeScenes == UNION {[1..n -> PipeLines] : n \in 1..MaxPipeLines}

\* scanScene, then parse() of the tokens it returned
NextPipe ==
    \/ tokens = <<>> /\ \E lines \in PipeScenes : ScanScene(lines)
    \/ ScanLineEnd
    \/ ScanIndentation
    \/ ScanProse
    \/ ScanProseToEOL
    \/ ScanExpression
    \/ ScanToken
    \/ ScanComment
    \/ ScanChoiceOption
    \/ ScanReturn
    \/ ParseScanned
    \/ ParseStatement
    \/ ParseReturn

\* the scenes execute is given: one or two scenes, of flows of up to
\* MaxFlowLen tokens
FlowTokens ==
    {FlowToken("Prose", 0, "", "", ""),
     FlowToken("Choice", 0, "", "", ""),
     FlowToken("FakeChoice", 1, "", "", ""),
     FlowToken("Ending", 0, "", "", ""),
     FlowToken("Finish", 0, "", "", ""),
     FlowToken("Label", 0, "l", "", ""),
     FlowToken("GotoLabel", 0, "", "l", ""),
     FlowToken("GotoScene", 0, "", "s2", ""),
     FlowToken("GotoScene", 0, "", "s1", "l")}

Flows == UNION {[1..n -> FlowTokens] : n \in 0..MaxFlowLen}

WalkScenes ==
    {<<[name |-> "s1", flow |-> f]>> : f \in Flows}
    \cup {<<[name |-> "s1", flow |-> f], [name |-> "s2", flow |-> g]>> :
             f \in Flows, g \in Flows}

\* no scene is built: execute is going to be given the scenes with their flows
InitWalk ==
    /\ Constructed
    /\ exists = {}
    /\ tokenizer = notCalled(<<>>)
    /\ traversal \in {notExecuted(scenes) : scenes \in WalkScenes}

NextWalk ==
    \/ Execute
    \/ TraverseIteration
    \/ ExecuteReturn

NextLex ==
    \/ TokenizeExpressionString
    \/ TokenizeIteration
    \/ TokenizeReturn

\* the scripts whose graphs are analysed: labels and jumps, a condition, a
\* declared and an assigned variable
AnalysisLines ==
    {Txt(0, "t"), Cmd(0, "label", "l1"), Cmd(0, "goto", "l1"),
     Cmd(0, "if", "c1"), Cmd(0, "finish", ""),
     Cmd(0, "create", <<"g", "o", "l", "d", " ", "1", "0">>),
     Cmd(0, "set", <<"g", "o", "l", "d", " ", "5">>)}

NextAnalysis ==
    \/ NextOne(AnalysisLines, MaxAnalysisLines)
    \/ DetectCycles
    \/ FindUnreachableNodes
    \/ ExtractVariables
    \/ ValidateGraph

SpecCalls == Init /\ [][NextCalls]_vars
SpecAll == InitOne /\ [][NextAll]_vars
SpecCond == InitOne /\ [][NextCond]_vars
SpecFlow == InitOne /\ [][NextFlow]_vars
SpecChoice == InitOne /\ [][NextChoice]_vars
SpecScenes == Init /\ [][NextScenes]_vars
SpecVars == InitOne /\ [][NextVars]_vars
SpecPrefix == InitOne /\ [][NextPrefix]_vars
SpecScan == InitOne /\ [][NextScan]_vars
SpecScanFair == SpecScan /\ WF_vars(NextScan)
SpecExpr == InitFront /\ [][NextExpr]_vars
SpecParse == InitFront /\ [][NextParse]_vars
SpecPipe == InitFront /\ [][NextPipe]_vars
SpecNest == InitOne /\ [][NextNest]_vars
SpecJumps == Init /\ [][NextJumps]_vars
SpecAnalysis == InitOne /\ [][NextAnalysis]_vars
SpecLex == InitLex /\ [][NextLex]_vars /\ WF_vars(NextLex)
SpecWalk == InitWalk /\ [][NextWalk]_vars /\ WF_vars(NextWalk)

\* ================================================================ claims
NodeIds == 1..Len(sm.nodes)
EdgeIds == 1..Len(sm.edges)
NodesOf(type) == {n \in NodeIds : sm.nodes[n].type = type}
OutEdges(n) == {e \in EdgeIds : sm.edges[e].source = n}
InEdges(n) == {e \in EdgeIds : sm.edges[e].target = n}
\* the script line a node was created at
LineOf(n) == content[sm.nodes[n].position.file][sm.nodes[n].position.line]
IsCmd(line, command) == line.kind = "command" /\ line.command = command
Returned == game.pc = "returned"

\* C1: in every state of a build, every edge of graph.edges has a source and a
\* target that are both keys of graph.nodes.
C1_EdgesReferToNodes ==
    \A e \in EdgeIds :
        sm.edges[e].source \in NodeIds /\ sm.edges[e].target \in NodeIds

\* C1 witness: an *else has added its edge, whose source is the node recorded
\* before the *if (nodeBeforeIf)
C1_Witness ==
    \E e \in EdgeIds :
        /\ sm.edges[e].attributes.condition = "not(c1)"
        /\ sm.nodes[sm.edges[e].target].type = "conditional"

\* ------------------------------------------------------------------- C2
\* The *if that opens the construct an *endif at line j of script closes, when
\* the construct has no conditional nested in it: the last *if before j with
\* neither *if nor *endif between; 0 when there is none.
OpeningIf(script, j) ==
    LET ifs == {i \in 1..(j - 1) :
                   /\ IsCmd(script[i], "if")
                   /\ \A k \in (i + 1)..(j - 1) :
                          ~IsCmd(script[k], "if") /\ ~IsCmd(script[k], "endif")}
    IN IF ifs = {} THEN 0 ELSE CHOOSE i \in ifs : TRUE

ElseIfsOf(script, i, j) == {k \in (i + 1)..(j - 1) : IsCmd(script[k], "elseif")}
ElsesOf(script, i, j) == {k \in (i + 1)..(j - 1) : IsCmd(script[k], "else")}

\* if, elseif*, else?, endif: at most one *else, after every *elseif
WellFormed(script, i, j) ==
    /\ i > 0
    /\ Cardinality(ElsesOf(script, i, j)) <= 1
    /\ \A k \in ElsesOf(script, i, j), l \in ElseIfsOf(script, i, j) : l < k

\* a merge node made between lines i and j of a scene: the construct opened
\* at i was closed before its *endif, by a line less indented than its body
\* (processIndentedContent)
ForceClosed(file, i, j) ==
    \E n \in NodesOf("merge") :
        /\ sm.nodes[n].position.file = file
        /\ sm.nodes[n].position.line \in (i + 1)..(j - 1)

\* the merge nodes made by the *endif of such a construct
SimpleMerges ==
    {n \in NodesOf("merge") :
        LET file == sm.nodes[n].position.file
            script == content[file]
            j == sm.nodes[n].position.line
            i == OpeningIf(script, j)
        IN /\ IsCmd(script[j], "endif")
           /\ WellFormed(script, i, j)
           /\ ~ForceClosed(file, i, j)}

Branches(n) ==
    LET script == content[sm.nodes[n].position.file]
        j == sm.nodes[n].position.line
        i == OpeningIf(script, j)
    IN 1 + Cardinality(ElseIfsOf(script, i, j)) + Cardinality(ElsesOf(script, i, j))

\* the edges into n that were added at the line that created n
InEdgesAtCreation(n) ==
    {e \in InEdges(n) : sm.edges[e].position = sm.nodes[n].position}

\* C2 as stated: the merge node of an if / elseif* / else? / endif construct
\* without nested conditionals has exactly 1 + #elseif + #else incoming edges.
C2_MergeInDegree ==
    \A n \in SimpleMerges : Cardinality(InEdges(n)) = Branches(n)

\* C2 amended: *endif adds exactly 1 + #elseif + #else edges into the merge
\* node it creates, one from each branch-terminal node; edges added later (the
\* return edge of a *gosub called from the merge node) are not counted.
C2_MergeInDegreeAtEndif ==
    \A n \in SimpleMerges :
        /\ Cardinality(InEdgesAtCreation(n)) = Branches(n)
        /\ Cardinality({sm.edges[e].source : e \in InEdgesAtCreation(n)}) = Branches(n)

\* C2 witness: the merge node of an if / elseif / else / endif construct
C2_Witness ==
    \E n \in SimpleMerges : Branches(n) = 3 /\ Cardinality(InEdges(n)) = 3

\* ------------------------------------------------------------------- C3
GraphOf(m) == <<m.nodes, m.edges, m.entryPoints, m.labels>>

EntryNodesOf(s) ==
    {n \in NodesOf("scene_entry") : sm.nodes[n].position.file = s}

C3_AtMostOneEntry == \A s \in SceneNames : Cardinality(EntryNodesOf(s)) <= 1

C3_LaterCallsNoOp ==
    [][\A i \in 1..Len(calls) :
          (/\ calls[i].pc = "hasScene"
           /\ calls'[i].pc # "hasScene"
           /\ calls[i].scene \in sm.processedScenes)
          => (GraphOf(sm') = GraphOf(sm) /\ calls'[i].pc = "done")]_vars

\* C3: a scene is processed at most once, whatever the order in which the
\* processScene calls for it resume from their awaits: its entry and content
\* are built once, and a call that finds it processed returns and leaves
\* nodes, edges, entryPoints and labels as they were.
C3_ProcessedAtMostOnce == []C3_AtMostOneEntry /\ C3_LaterCallsNoOp

\* C3 witness: two calls for one existing scene have returned, after the scene's
\* content was built
C3_Witness ==
    \E i, j \in 1..Len(calls) :
        /\ i < j
        /\ calls[i].scene = calls[j].scene
        /\ calls[i].pc = "done" /\ calls[j].pc = "done"
        /\ calls[i].scene \in exists
        /\ Len(content[calls[i].scene]) > 0

\* ------------------------------------------------------------------- C4
SceneJumps == {n \in NodesOf("goto") \cup NodesOf("gosub") :
                  sm.nodes[n].attributes.sceneName # ""}

\* C4: after processGame(entry, true) returns, every existing scene that is the
\* target of a *goto_scene / *gosub_scene of a processed scene has an entry point.
C4_LinkedScenesProcessed ==
    (Returned /\ game.all) =>
        \A n \in SceneJumps :
            sm.nodes[n].attributes.sceneName \in exists
                => sm.nodes[n].attributes.sceneName \in DOMAIN sm.entryPoints

\* ------------------------------------------------------------------- C5
Range(seq) == {seq[i] : i \in 1..Len(seq)}
ListNames == Range(firstSceneList(sm.nodes, 1))
GameCalls == {i \in 1..Len(calls) : calls[i].by = "game"}

\* C5: the discovery loop terminates: processGame makes at most one
\* processScene call per distinct name of the scene list besides the entry
\* call, processes no scene that is not referenced, and is never stuck before
\* it returns.
C5_LoopTerminates ==
    /\ Cardinality(GameCalls) <= 1 + Cardinality(ListNames)
    /\ sm.processedScenes \subseteq ({EntryScene} \cup ListNames)
    /\ (game.pc \notin {"idle", "returned"} => ENABLED NextScenes)

\* C5 witness: the loop has ended with a scene list that names a scene that
\* does not exist, after a listed scene was processed
C5_Witness ==
    /\ Returned /\ game.all
    /\ ListNames \ exists # {}
    /\ Cardinality(sm.processedScenes) >= 2

\* ------------------------------------------------------------------- C6
\* C6: a structural error (a *return without *gosub, an *elseif / *else /
\* *endif without *if) is fatal: processGame does not return a graph.
C6_StructuralErrorIsFatal == Returned => errorLog = <<>>

\* ------------------------------------------------------------------- C7
LabelLines(file, label) ==
    {j \in 1..Len(content[file]) :
        IsCmd(content[file][j], "label") /\ content[file][j].args = label}

LabelGotos == {n \in NodesOf("goto") : sm.nodes[n].attributes.labelName # ""}

\* C7: a *goto whose label no *label of the scene defines has no outgoing edge
\* in the finished graph.
C7_UnresolvedGotoHasNoEdge ==
    Returned =>
        \A n \in LabelGotos :
            LabelLines(sm.nodes[n].position.file,
                       sm.nodes[n].attributes.labelName) = {}
                => OutEdges(n) = {}

\* ------------------------------------------------------------------- C8
LabelNodes(file, label) ==
    {n \in NodesOf("label") :
        sm.nodes[n].position.file = file /\ sm.nodes[n].attributes.labelName = label}

\* C8: after a scene is built, every *goto whose label a *label of the scene
\* defines, before or after it, has an edge to that label's node.
C8_GotoResolved ==
    Returned =>
        \A n \in LabelGotos :
            LET targets == LabelNodes(sm.nodes[n].position.file,
                                      sm.nodes[n].attributes.labelName)
            IN targets # {} =>
                   \E e \in OutEdges(n) : sm.edges[e].target \in targets

\* ------------------------------------------------------------------- C9
\* the '#' lines of a script that stand inside a choice block whose first line
\* is an option: every line of ChoiceLines but *choice is indented, so these
\* are the '#' lines after such a *choice
OptionLines(script) ==
    {j \in 1..Len(script) :
        /\ script[j].kind = "option"
        /\ \E k \in 1..(j - 1) :
               IsCmd(script[k], "choice") /\ script[k + 1].kind = "option"}

\* C9: every '#' line inside a choice block has an option node, linked from a
\* choice node.
C9_EveryOptionHasNode ==
    \A i \in 1..Len(calls) :
        calls[i].pc = "done" =>
            \A j \in OptionLines(content[calls[i].scene]) :
                \E n \in NodesOf("option") :
                    /\ sm.nodes[n].position = [file |-> calls[i].scene, line |-> j]
                    /\ \E e \in InEdges(n) :
                           sm.nodes[sm.edges[e].source].type = "choice"

\* ------------------------------------------------------------------ C10
\* C10: a *goto_scene whose target scene was processed in the build, before or
\* after the *goto_scene, has an edge to that scene's entry node.
C10_GotoSceneLinked ==
    Returned =>
        \A n \in NodesOf("goto") :
            LET s == sm.nodes[n].attributes.sceneName
            IN (s # "" /\ s \in DOMAIN sm.entryPoints) =>
                   \E e \in OutEdges(n) : sm.edges[e].target = sm.entryPoints[s]

\* ------------------------------------------------------------------ C11
\* C11: a finish node never has an outgoing edge, whatever follows the *finish.
C11_FinishHasNoOutEdge ==
    \A n \in NodesOf("finish") : OutEdges(n) = {}

\* ------------------------------------------------------------------ C12
\* the node a command line made: the node of the given type created at it
NodeAt(file, line, type) ==
    {n \in NodesOf(type) : sm.nodes[n].position = [file |-> file, line |-> line]}

RECURSIVE PriorConditions(_, _, _)
\* the disjunction of the conditions of the *if at line i and of the *elseif
\* lines between i and k, in the order written
PriorConditions(script, i, k) ==
    IF k - 1 <= i THEN script[i].args
    ELSE IF IsCmd(script[k - 1], "elseif")
    THEN "(" \o PriorConditions(script, i, k - 1) \o ") or ("
             \o script[k - 1].args \o ")"
    ELSE PriorConditions(script, i, k - 1)

\* the *elseif / *else lines of a file that continue an *if of the file: the
\* *if is still open (not closed early by a less indented line) and no *else
\* precedes the line in the construct
BranchLines(file) ==
    {k \in 1..Len(content[file]) :
        LET script == content[file]
            i == OpeningIf(script, k)
        IN /\ IsCmd(script[k], "elseif") \/ IsCmd(script[k], "else")
           /\ i > 0
           /\ ElsesOf(script, i, k) = {}
           /\ ~ForceClosed(file, i, k)
           /\ NodeAt(file, k, "conditional") # {}}

\* the node that was current before the *if at line i: the source of the edge
\* the *if added into its own node
PreIfNodes(file, i) ==
    {sm.edges[e].source :
        e \in UNION {InEdgesAtCreation(n) : n \in NodeAt(file, i, "conditional")}}

ExpectedCondition(script, i, k) ==
    IF IsCmd(script[k], "elseif")
    THEN "not(" \o PriorConditions(script, i, k) \o ") and ("
             \o script[k].args \o ")"
    ELSE "not(" \o PriorConditions(script, i, k) \o ")"

\* C12: the node of an *elseif ci is linked, by the one edge the *elseif adds
\* into it, from the node that was current before the *if (not from the
\* previous branch), with condition not(c0 or ... or c(i-1)) and (ci); the
\* node of an *else likewise, with condition not(c0 or ... or ck).
C12_ElseIfLinkedFromPreIf ==
    \A file \in SceneNames : \A k \in BranchLines(file) :
        LET script == content[file]
            i == OpeningIf(script, k)
        IN \A n \in NodeAt(file, k, "conditional") :
              /\ Cardinality(InEdgesAtCreation(n)) = 1
              /\ \A e \in InEdgesAtCreation(n) :
                    /\ {sm.edges[e].source} = PreIfNodes(file, i)
                    /\ sm.edges[e].attributes.condition =
                           ExpectedCondition(script, i, k)

\* C12 witness: the *else of *if c1 / *elseif c2 / *elseif c2 / *else is linked
C12_Witness ==
    \E k \in BranchLines(EntryScene) :
        /\ IsCmd(content[EntryScene][k], "else")
        /\ Cardinality(ElseIfsOf(content[EntryScene],
                                 OpeningIf(content[EntryScene], k), k)) = 2
        /\ \E n \in NodeAt(EntryScene, k, "conditional") : InEdges(n) # {}

\* ------------------------------------------------------------------ C13
\* the node that was current before the *gosub that made node n: the source of
\* the edge the *gosub added into n
PreCallNode(n) ==
    CHOOSE s \in NodeIds \cup {Null} :
        \/ \E e \in InEdgesAtCreation(n) : sm.edges[e].source = s
        \/ InEdgesAtCreation(n) = {} /\ s = Null

RECURSIVE PendingCalls(_)
\* the pre-call nodes pushed and not yet popped when nodes 1..n are made, the
\* latest last: a gosub node pushes one, a return node pops one
PendingCalls(n) ==
    IF n = 0 THEN <<>>
    ELSE LET before == PendingCalls(n - 1)
         IN IF sm.nodes[n].type = "gosub" THEN Append(before, PreCallNode(n))
            ELSE IF sm.nodes[n].type = "return" /\ before # <<>>
            THEN SubSeq(before, 1, Len(before) - 1)
            ELSE before

\* the edges out of n that were added at the line that created n
OutEdgesAtCreation(n) ==
    {e \in OutEdges(n) : sm.edges[e].position = sm.nodes[n].position}

\* C13: *gosub / *gosub_scene push the node that was current before the call
\* and *return pops one entry and links the return node to it: every return
\* node has one edge, to the latest pre-call node not yet returned to, and
\* subroutineStack holds the pre-call nodes still pending.
C13_ReturnIsLIFO ==
    /\ sm.subroutineStack = PendingCalls(Len(sm.nodes))
    /\ \A r \in NodesOf("return") :
          LET pending == PendingCalls(r - 1)
          IN /\ pending # <<>>
             /\ {sm.edges[e].target : e \in OutEdgesAtCreation(r)}
                    = {pending[Len(pending)]}
             /\ Cardinality(OutEdgesAtCreation(r)) = 1

\* C13 witness: two nested calls have both returned, to different nodes
C13_Witness ==
    /\ sm.subroutineStack = <<>>
    /\ \E r1, r2 \in NodesOf("return") :
          /\ r1 < r2
          /\ Len(PendingCalls(r1 - 1)) = 2
          /\ \E e1 \in OutEdges(r1), e2 \in OutEdges(r2) :
                sm.edges[e1].target > sm.edges[e2].target

\* ------------------------------------------------------------------ C14
Gold == <<"g", "o", "l", "d">>
CreateGold10 == Cmd(0, "create", Gold \o <<" ", "1", "0">>)
SetGoldFairAdd5 == Cmd(0, "set", Gold \o <<"%", "+", "5">>)

\* the build has processed the two lines '*create gold 10', '*set gold%+5'
CreateThenSetBuilt ==
    /\ Len(content[EntryScene]) >= 2
    /\ content[EntryScene][1] = CreateGold10
    /\ content[EntryScene][2] = SetGoldFairAdd5

\* C14: the lines '*create gold 10' and '*set gold%+5' give a variable node
\* with dataType numeric and initialValue 10, and a set node with operation
\* fairmath_add and value 5 that has an edge from the variable node.
C14_CreateThenFairmathSet ==
    /\ (Len(content[EntryScene]) >= 1 /\ content[EntryScene][1] = CreateGold10)
           => \E v \in NodeAt(EntryScene, 1, "variable") :
                  /\ sm.nodes[v].attributes.dataType = "numeric"
                  /\ sm.nodes[v].attributes.initialValue = <<"1", "0">>
    /\ CreateThenSetBuilt
           => \E v \in NodeAt(EntryScene, 1, "variable"),
                 n \in NodeAt(EntryScene, 2, "set") :
                  /\ sm.nodes[n].attributes.operation = "fairmath_add"
                  /\ sm.nodes[n].attributes.value = <<"5">>
                  /\ \E e \in EdgeIds :
                         sm.edges[e].source = v /\ sm.edges[e].target = n

\* C14 witness: the two lines are built and the scene has ended without error
C14_Witness ==
    /\ CreateThenSetBuilt
    /\ calls[1].pc = "done"
    /\ errorLog = <<>>
    /\ NodesOf("set") # {}

\* ------------------------------------------------------------------ C15
OperationOf(operator) ==
    CASE operator = <<>> -> "set"
      [] operator = <<"+">> -> "add"
      [] operator = <<"-">> -> "subtract"
      [] operator = <<"%", "+">> -> "fairmath_add"
      [] operator = <<"%", "-">> -> "fairmath_subtract"

\* the *set lines a build has processed
SetLinesRead ==
    {content[EntryScene][j].args :
        j \in {k \in 1..Len(content[EntryScene]) :
                  IsCmd(content[EntryScene][k], "set")}}

\* C15: for every *set argument 'name value', 'name +value', 'name -value',
\* 'name %+value', 'name %-value', with or without a space between name and
\* operator, extractVariableNameAndValue returns a result, not null, whose
\* operation is the one the operator written stands for.
C15_OperatorClassified ==
    \A name \in Names, operator \in Operators, spacing \in Spacings,
       value \in Values :
        LET args == SetArg(name, operator, spacing, value)
        IN (args \in SetArgs /\ args \in SetLinesRead) =>
               /\ extractVariableNameAndValue(args).ok
               /\ extractVariableNameAndValue(args).operation
                      = OperationOf(operator)

\* ------------------------------------------------------------------ C16
\* the lines of a scene that are a *create / *temp / *set with an argument that
\* lacks its name or its value
MalformedLines(file) ==
    {j \in 1..Len(content[file]) :
        /\ content[file][j].kind = "command"
        /\ content[file][j].command \in {"create", "temp", "set"}
        /\ content[file][j].args \in MalformedArgs}

\* C16: a malformed *create / *temp / *set is not fatal: the line gives a
\* variable / set node, and the scene is not abandoned at it (no error ends
\* processContent, so the lines after it are processed).
C16_MalformedNotFatal ==
    \A file \in SceneNames : \A j \in MalformedLines(file) :
        /\ NodeAt(file, j, "variable") \cup NodeAt(file, j, "set") # {}
        /\ file \notin Range(errorLog)

\* ------------------------------------------------------------------ C17
\* the prose lines of a scene
ProseLines(file) ==
    {j \in 1..Len(content[file]) : content[file][j].kind = "text"}

\* C17: no prose line is lost: when a scene has been built, every prose line
\* of it is in the text of a text node that was made at that line or after it
\* (at the next command, or at the end of the scene) and has an incoming edge.
C17_TextNeverLost ==
    \A i \in 1..Len(calls) :
        (calls[i].pc = "done" /\ calls[i].scene \notin Range(errorLog)) =>
            \A j \in ProseLines(calls[i].scene) :
                \E n \in NodesOf("text") :
                    /\ sm.nodes[n].position.file = calls[i].scene
                    /\ sm.nodes[n].position.line >= j
                    /\ content[calls[i].scene][j].args
                           \in Range(sm.nodes[n].attributes.text)
                    /\ InEdges(n) # {}

\* ------------------------------------------------------------------ C18
\* the prefixed options of a script that stand in the block of a *choice: the
\* lines of ReusePrefixed / ConditionPrefixed after a *choice at line 1
PrefixedOptionLines(script) ==
    {j \in 2..Len(script) :
        /\ IsCmd(script[1], "choice")
        /\ script[j] \in ReusePrefixed \cup ConditionPrefixed}

\* C18: an option written with prefixes before its '#' gives an option node,
\* linked from the owning choice node by an edge that carries the option's
\* condition when the prefix is *selectable_if (expr) or *if (expr).
C18_PrefixedOptionHasNode ==
    \A j \in PrefixedOptionLines(content[EntryScene]) :
        \E n \in NodeAt(EntryScene, j, "option") :
            \E e \in InEdges(n) :
                /\ sm.nodes[sm.edges[e].source].type = "choice"
                /\ content[EntryScene][j] \in ConditionPrefixed
                       => sm.edges[e].attributes.condition = "c1"

\* ------------------------------------------------------------------ C19
ScanReturned == tokens # <<>> /\ tokens[Len(tokens)].type = "SceneEnd"

ModeRank(mode) ==
    CASE mode = "Indentation" -> 0
      [] mode = "Token" -> 2
      [] OTHER -> 1

\* one iteration of the loop goes to a later line, or to a later position of the
\* line, or stays and changes the mode in the order Indentation, then Prose or
\* Expression, then Token
ScanAdvances ==
    \/ context'.lineNumber > context.lineNumber
    \/ /\ context'.lineNumber = context.lineNumber
       /\ context'.position > context.position
    \/ /\ context'.lineNumber = context.lineNumber
       /\ context'.position = context.position
       /\ ModeRank(context'.mode) > ModeRank(context.mode)

\* C19: scanScene never fails: it throws nothing, every iteration of its loop
\* advances the line or the position or makes a mode change that cannot repeat
\* at the same position, and it returns a token stream that ends the scene.
C19_ScanNeverFails ==
    /\ [](context.mode # "TypeError")
    /\ [][(tokens # <<>> /\ ~ScanReturned') => ScanAdvances]_vars
    /\ <>ScanReturned

\* C19 witness: a scene of three lines with a token after prose was scanned
C19_Witness ==
    /\ ScanReturned
    /\ Len(sceneLines) = 3
    /\ \E i \in 1..Len(tokens) : tokens[i].type = "Prose"
    /\ \E i \in 1..Len(tokens) : tokens[i].type = "ComparisonOperator"

\* ------------------------------------------------------------------ C20
\* C20: the source positions of a scene's tokens are monotonic: a token pushed
\* later has a (lineNumber, position) that is not smaller than that of a token
\* pushed earlier.
C20_PositionsMonotonic ==
    \A i, j \in 1..Len(tokens) :
        i < j =>
            \/ tokens[i].lineNumber < tokens[j].lineNumber
            \/ /\ tokens[i].lineNumber = tokens[j].lineNumber
               /\ tokens[i].position <= tokens[j].position

\* ------------------------------------------------------------------ C21
\* the lines of the scanned scene that are the given text, as line numbers
LinesOf(text) == {i \in 0..(Len(sceneLines) - 1) : sceneLines[i + 1] = text}

\* a token of the type was pushed for the line
TokenAt(type, lineNumber) ==
    \E i \in 1..Len(tokens) :
        tokens[i].type = type /\ tokens[i].lineNumber = lineNumber

\* C21: a keyword is recognised when nothing follows it on its line: once the
\* scene is scanned, every line that is only '*else' has an Else token and every
\* line that is only '*return' has a Return token.
C21_BareKeywordRecognised ==
    ScanReturned =>
        /\ \A i \in LinesOf(<<"*", "e", "l", "s", "e">>) : TokenAt("Else", i)
        /\ \A i \in LinesOf(<<"*", "r", "e", "t", "u", "r", "n">>) :
               TokenAt("Return", i)

\* ------------------------------------------------------------------ C22
\* the precedence level of a binary operator, lowest first
Level(type) ==
    CASE type \in {"LogicalAnd", "LogicalOr"} -> 1
      [] type \in {"EqualityOperator", "NotEqualityOperator"} -> 2
      [] type \in {"GreaterThanOperator", "GreaterThanEqualsOperator",
                   "LessThanOperator", "LessThanEqualsOperator"} -> 3
      [] type \in {"SubtractionOperator", "AdditionOperator",
                   "ConcatenationOperator"} -> 4
      [] type \in {"DivisionOperator", "MultiplicationOperator",
                   "ModulusOperator"} -> 5

\* parse() returned the statement of '*set x a op1 b op2 c'
ParsedThreeOperands ==
    /\ parsed.returned
    /\ Len(parser.tokens) = 9
    /\ parser.tokens[2].type = "SetVariable"

ParsedExpression == parsed.statements[1].expression

Operand(i) == [token |-> parser.tokens[i]]

\* Binary(Binary(a, op1, b), op2, c)
LeftTree ==
    [left |-> [left |-> Operand(4), operator |-> parser.tokens[5],
               right |-> Operand(6)],
     operator |-> parser.tokens[7], right |-> Operand(8)]

\* Binary(a, op1, Binary(b, op2, c))
RightTree ==
    [left |-> Operand(4), operator |-> parser.tokens[5],
     right |-> [left |-> Operand(6), operator |-> parser.tokens[7],
                right |-> Operand(8)]]

\* C22: binary nodes are left-associative at every precedence level: for two
\* operators of one level, 'a op1 b op2 c' parses to
\* Binary(Binary(a, op1, b), op2, c).
C22_LeftAssociative ==
    (ParsedThreeOperands
     /\ Level(parser.tokens[5].type) = Level(parser.tokens[7].type))
        => ParsedExpression = LeftTree

\* ------------------------------------------------------------------ C23
\* C23: precedence follows the ladder logical, equality, comparison, term,
\* factor: in 'a op1 b op2 c' the operator of the higher level binds its
\* operands first, so 'a = b > c' parses to Binary(a, =, Binary(b, >, c)).
C23_PrecedenceLadder ==
    ParsedThreeOperands =>
        /\ Level(parser.tokens[5].type) < Level(parser.tokens[7].type)
               => ParsedExpression = RightTree
        /\ Level(parser.tokens[5].type) > Level(parser.tokens[7].type)
               => ParsedExpression = LeftTree

\* ------------------------------------------------------------------ C24
\* the statements of a list with the statements inside them, outermost first
RECURSIVE AllStatements(_)
AllStatements(stmts) ==
    IF stmts = <<>> THEN <<>>
    ELSE LET s == Head(stmts)
             inside ==
                 CASE s.kind = "If" ->
                          AllStatements(s.body \o s.elseIfBranches \o s.elseBranch)
                   [] s.kind \in {"ElseIf", "Else", "Choice", "ChoiceOption"} ->
                          AllStatements(s.body)
                   [] OTHER -> <<>>
         IN <<s>> \o inside \o AllStatements(Tail(stmts))

IfStatements ==
    LET all == AllStatements(parsed.statements)
    IN {i \in 1..Len(all) : all[i].kind = "If"}

\* C24: an ElseIf or Else token is attached to an If statement only when the
\* token itself is in sibling scope of the if: its indent is not less than the
\* indent of the if.
C24_BranchInSiblingScope ==
    LET all == AllStatements(parsed.statements)
    IN \A i \in IfStatements :
           /\ \A j \in 1..Len(all[i].elseIfBranches) :
                  all[i].elseIfBranches[j].token.indent >= all[i].token.indent
           /\ \A j \in 1..Len(all[i].elseBranch) :
                  all[i].elseBranch[j].token.indent >= all[i].token.indent

\* ------------------------------------------------------------------ C25
\* the Error names the token the parser is at
ErrorNames(p, token) ==
    /\ p.error.type = token.type
    /\ p.error.lineNumber = token.lineNumber
    /\ p.error.position = token.position
    /\ p.error.indent = token.indent

\* C25: when the token at a statement start is not a statement keyword, parse
\* throws an Error that names that token's type, line, position and indent, and
\* returns no statement list.
C25_UnknownStatementThrows ==
    /\ [](parser.thrown => ~parsed.returned)
    /\ []((parser.thrown
           /\ parser.error.message = "Unknown statement block starting")
          => /\ ErrorNames(parser, peek(parser))
             /\ peek(parser).type \notin StatementKeywords \ {"SceneEnd"})
    /\ [][(Parsing /\ ~isAtEnd(parser)
           /\ peek(parser).type \notin StatementKeywords)
          => /\ parser'.thrown
             /\ parser'.error.message = "Unknown statement block starting"
             /\ ErrorNames(parser', peek(parser))
             /\ parsed' = parsed]_vars

\* C25 witness: the second line of a scene started with a token that starts no
\* statement, after a statement was parsed, and parse threw
C25_Witness ==
    /\ parser.thrown
    /\ parser.error.message = "Unknown statement block starting"
    /\ parser.error.type = "Finish"
    /\ parser.error.lineNumber = 1
    /\ Len(parsed.statements) = 1

\* ------------------------------------------------------------------ C26
\* parse() returned the statements of '*choice' followed by an indented
\* '*hide_reuse #option'
ParsedPrefixedOption ==
    /\ parsed.returned
    /\ Len(parser.tokens) >= 5
    /\ parser.tokens[2].type = "Choice"
    /\ parser.tokens[3].type = "HideReuse"
    /\ parser.tokens[4].type = "ChoiceOption"

\* C26: in a choice body, an option preceded by a reuse prefix parses to exactly
\* one ChoiceOption statement: its token is the option, its reuse field names
\* the prefix, and the indented body of the option belongs to it.
C26_PrefixedOptionIsOneStatement ==
    ParsedPrefixedOption =>
        LET all == AllStatements(parsed.statements)
            options == {i \in 1..Len(all) :
                           /\ all[i].kind = "ChoiceOption"
                           /\ all[i].token.lineNumber = 1}
        IN /\ Cardinality(options) = 1
           /\ \A i \in options :
                  /\ all[i].token = parser.tokens[4]
                  /\ all[i].reuse = "hide_reuse"
                  /\ (Len(parser.tokens) >= 6 /\ parser.tokens[5].indent = 2)
                         => all[i].body # <<>>

\* ---- C27
\* the characters some branch of the loop takes by themselves
RecognisedChars ==
    {" ", "\t", "\"", "'", "(", ")", "+", "-", "*", "/", "%", "&", "=", ">",
     "<", "|", "}", "_"} \cup Digits \cup Letters

\* the tokenizer stands at a character no branch of its loop takes
AtUnrecognised ==
    /\ tokenizer.pc = "loop"
    /\ tokenizer.cursor < Len(tokenizer.expression)
    /\ tokenizer.expression[tokenizer.cursor + 1] \notin RecognisedChars
    /\ substring(tokenizer.expression, tokenizer.cursor, tokenizer.cursor + 2)
           \notin {<<"!", "=">>, <<"@", "{">>, <<"$", "{">>}

\* C27: tokenizeExpressionString is total. Every iteration of its loop moves
\* the cursor forward and never past the end of the expression; an iteration
\* that stands at a character it does not recognise moves the cursor by one and
\* pushes no token; and every call returns its token list.
C27_TokenizerTotal ==
    /\ [][tokenizer.pc = "loop" /\ tokenizer'.pc = "loop"
            => /\ tokenizer'.cursor > tokenizer.cursor
               /\ tokenizer'.cursor <= Len(tokenizer.expression)
               /\ AtUnrecognised
                    => /\ tokenizer'.cursor = tokenizer.cursor + 1
                       /\ tokenizer'.tokens = tokenizer.tokens]_vars
    /\ (tokenizer.pc = "loop") ~> (tokenizer.pc = "returned")

\* a call on 'a#1' has returned the tokens of 'a' and '1'
C27_Witness ==
    /\ tokenizer.pc = "returned"
    /\ tokenizer.expression = <<"a", "#", "1">>
    /\ Len(tokenizer.tokens) = 2
    /\ tokenizer.tokens[1].type = "Identifier"
    /\ tokenizer.tokens[2].type = "NumberLiteral"

\* ---- C28
\* the type of the token a marker is to yield
MarkerType(marker) ==
    CASE marker \in {<<"%", "+">>, <<"%", "-">>} -> "ArithmeticOperator"
      [] marker \in {<<">", "=">>, <<"<", "=">>, <<"!", "=">>} ->
             "ComparisonOperator"
      [] marker = <<"@", "{">> -> "OpenMultiReplace"
      [] marker = <<"$", "{">> -> "OpenPrint"
      [] marker = <<"$", "!", "{">> -> "OpenPrintCapitaliseFirst"
      [] marker = <<"$", "!", "!", "{">> -> "OpenPrintCapitaliseAll"

\* C28: an expression that is one multi-character marker ('%+', '%-', '>=',
\* '<=', '!=', '@{', '${', '$!{', '$!!{') is tokenized to a single token, of
\* the marker's type and made of all its characters.
C28_MarkerIsOneToken ==
    tokenizer.pc = "returned" /\ tokenizer.expression \in Markers
    => /\ Len(tokenizer.tokens) = 1
       /\ tokenizer.tokens[1].type = MarkerType(tokenizer.expression)
       /\ tokenizer.tokens[1].value = tokenizer.expression

\* ---- C29
\* the nodes an edge leads to from a node of the set
Successors(graph, S) ==
    {graph.edges[i].target :
        i \in {j \in 1..Len(graph.edges) : graph.edges[j].source \in S}}

RECURSIVE ReachableFrom(_, _)
\* the nodes reached from the set along any number of edges, none included
ReachableFrom(graph, S) ==
    LET T == S \cup Successors(graph, S)
    IN IF T = S THEN S ELSE ReachableFrom(graph, T)

\* some node is reached from itself along one edge or more
HasCycle(graph) ==
    \E i \in 1..Len(graph.edges) :
        graph.edges[i].source
            \in ReachableFrom(graph, {graph.edges[i].target})

LabelLoop == <<Cmd(0, "label", "l1"), Cmd(0, "goto", "l1")>>

\* the step is a call of the pass
Calls(pass) == ~analysis.called /\ analysis'.called /\ analysis'.pass = pass

\* C29: detectCycles returns a non-empty list exactly when the graph it is
\* given has a directed cycle; on the graph built from '*label l1' followed by
\* '*goto l1' the list holds the cycle label node, goto node, label node.
C29_DetectCyclesFindsCycles ==
    [][Calls("detectCycles")
         => /\ Len(analysis'.detectCycles) > 0 <=> HasCycle(graphOf(sm))
            /\ content[EntryScene] = LabelLoop
                 => \E k \in 1..Len(analysis'.detectCycles),
                       n \in 1..Len(sm.nodes) :
                        /\ sm.nodes[n].type = "goto"
                        /\ analysis'.detectCycles[k] =
                               <<sm.labels["l1"], sm.nodes[n].id,
                                 sm.labels["l1"]>>]_vars

\* detectCycles was called on the graph of '*label l1', '*goto l1' and
\* returned one cycle, of the label node and the goto node
C29_Witness ==
    /\ analysis.pass = "detectCycles"
    /\ content[EntryScene] = LabelLoop
    /\ analysis.detectCycles = <<<<sm.labels["l1"], sm.labels["l1"] + 1,
                                   sm.labels["l1"]>>>>
    /\ sm.nodes[sm.labels["l1"] + 1].type = "goto"

\* ---- C30
\* C30: a call of detectCycles, findUnreachableNodes, extractVariables or
\* validateGraph leaves the nodes, the edges, the entry points and the labels
\* of the graph as they were.
C30_AnalysisReadOnly ==
    [][\A pass \in {"detectCycles", "findUnreachableNodes", "extractVariables",
                    "validateGraph"} :
          Calls(pass) => /\ sm'.nodes = sm.nodes
                         /\ sm'.edges = sm.edges
                         /\ sm'.entryPoints = sm.entryPoints
                         /\ sm'.labels = sm.labels]_vars

\* validateGraph was called on a graph with a cycle, and its three passes ran:
\* the graph still has its nodes, edges, entry point and label
C30_Witness ==
    /\ analysis.pass = "validateGraph"
    /\ \E k \in 1..Len(analysis.validateGraph.warnings) :
           analysis.validateGraph.warnings[k].kind = "cycles"
    /\ content[EntryScene] = LabelLoop
    /\ Len(sm.nodes) = 3
    /\ Len(sm.edges) = 3
    /\ DOMAIN sm.entryPoints = {EntryScene}
    /\ DOMAIN sm.labels = {"l1"}

\* ---- C31
\* the scene_entry node of a processed scene
EntryOf(s) == sm.entryPoints[s]

\* C31: after processGame(entry, true) returns, every scene the scene list
\* names and the provider has is processed, and the listed scenes were
\* processed in the order of the list, also when a name earlier in the list is
\* of a scene that does not exist.
C31_ListedScenesProcessedInOrder ==
    (Returned /\ game.all) =>
        LET list == firstSceneList(sm.nodes, 1)
        IN /\ \A i \in 1..Len(list) :
                  list[i] \in exists => list[i] \in sm.processedScenes
           /\ \A i, j \in 1..Len(list) :
                  (/\ i < j
                   /\ list[i] \in DOMAIN sm.entryPoints \ {EntryScene}
                   /\ list[j] \in DOMAIN sm.entryPoints \ {EntryScene}
                   /\ \A k \in 1..(j - 1) : list[k] # list[j])
                  => EntryOf(list[i]) < EntryOf(list[j])

\* ---- C32
\* the nodes made for the content of a scene
ContentNodes(s) ==
    {n \in NodeIds : sm.nodes[n].position.file = s /\ sm.nodes[n].type # "scene_entry"}

\* the first of them
FirstContentNode(s) ==
    CHOOSE n \in ContentNodes(s) : \A k \in ContentNodes(s) : n <= k

\* the content of the scene hangs off the entry point of the scene
HangsOffEntry(s) ==
    \E e \in InEdges(FirstContentNode(s)) : sm.edges[e].source = EntryOf(s)

\* C32: for every processed scene whose content has given a node, the first
\* such node is the target of an edge from the scene_entry node of that scene,
\* for the first scene and for the scenes processed after it.
C32_ContentHangsOffEntry ==
    \A s \in sm.processedScenes : ContentNodes(s) # {} => HangsOffEntry(s)

\* ---- C33
\* the goto nodes of *goto lines (a *goto_scene has a sceneName)
LabelJumps == {n \in NodesOf("goto") : sm.nodes[n].attributes.sceneName = ""}

\* C33: the edge a *goto adds from its goto node leads to a label node of the
\* scene the *goto is in, also when a scene processed before defines a label
\* of the same name: a *goto gives no edge into another scene.
C33_GotoStaysInScene ==
    \A n \in LabelJumps :
        \A e \in OutEdgesAtCreation(n) :
            /\ sm.edges[e].target \in NodesOf("label")
            /\ sm.nodes[sm.edges[e].target].position.file
                   = sm.nodes[n].position.file

\* ---- C34
IsChoice(line) == IsCmd(line, "choice") \/ IsCmd(line, "fake_choice")

\* the lines of *choice / *fake_choice before line j whose indent is smaller
\* than the indent of line j
EnclosingChoices(script, j) ==
    {k \in 1..(j - 1) : IsChoice(script[k]) /\ script[k].ind < script[j].ind}

\* the nearest of them
NearestChoice(script, j) ==
    CHOOSE k \in EnclosingChoices(script, j) :
        \A l \in EnclosingChoices(script, j) : l <= k

\* C34: the choice parent of an option node is the node of the nearest
\* *choice / *fake_choice before the option whose indent is smaller than the
\* option's: after a nested choice, an option of the outer choice is linked from
\* the outer choice node.
C34_OptionParentIsNearestChoice ==
    \A n \in NodesOf("option") :
        LET script == content[sm.nodes[n].position.file]
            j == sm.nodes[n].position.line
        IN EnclosingChoices(script, j) # {} =>
               \A e \in InEdges(n) :
                   /\ sm.nodes[sm.edges[e].source].type = "choice"
                   /\ sm.nodes[sm.edges[e].source].position.line
                          = NearestChoice(script, j)

\* ---- C35
\* C35: the two records of an assignment agree: the operation in the
\* statChanges of the edge entering a set node is the operation attribute of
\* the set node, whichever of set, add, subtract, fairmath_add and
\* fairmath_subtract it is.
C35_EdgeAndNodeOperationAgree ==
    \A n \in NodesOf("set") :
        \A e \in InEdgesAtCreation(n) :
            /\ Len(sm.edges[e].attributes.statChanges) = 1
            /\ sm.edges[e].attributes.statChanges[1].operation
                   = sm.nodes[n].attributes.operation

\* ---- C36
\* the names a *set argument can have been written with
NamesWritten(args) ==
    {name \in Names :
        \E operator \in Operators, spacing \in Spacings, value \in Values :
            args = SetArg(name, operator, spacing, value)}

\* C36: the variableName of a set node is the identifier written before the
\* operator, for every operator and with or without a space before it:
\* 'gold%+5', 'gold %+5', 'gold%-5', 'gold +5' and 'gold 5' all record 'gold'.
C36_VariableNameIsIdentifier ==
    \A n \in NodesOf("set") :
        LET args == LineOf(n).args
        IN args \in SetArgs =>
               sm.nodes[n].attributes.variableName \in NamesWritten(args)

\* ---- C37
\* the kind the parser's grammar matches for an operator as written
GrammarKind(word) ==
    CASE word = <<"+">> -> "AdditionOperator"
      [] word = <<"-">> -> "SubtractionOperator"
      [] word = <<"*">> -> "MultiplicationOperator"
      [] word = <<"/">> -> "DivisionOperator"
      [] word = <<">">> -> "GreaterThanOperator"
      [] word = <<"<">> -> "LessThanOperator"
      [] word = <<"=">> -> "EqualityOperator"
      [] word = <<"a", "n", "d">> -> "LogicalAnd"
      [] word = <<"o", "r">> -> "LogicalOr"
      [] word = <<"n", "o", "t">> -> "NotOperator"
      [] OTHER -> ""

\* the tokens of a stream that were made of an operator
OperatorTokens(stream) ==
    {i \in 1..Len(stream) : GrammarKind(stream[i].value) # ""}

\* the scene is the one line '*set x 1 + 2', and parse() has ended
ParsedOnePlusTwo ==
    /\ sceneLines = <<<<"*", "s", "e", "t", " ", "x", " ", "1", " ", "+", " ", "2">>>>
    /\ parser.tokens # <<>>
    /\ parser.thrown \/ parsed.returned

\* C37: what the scanner gives is what the parser takes: the token of an
\* operator +, -, *, /, >, <, =, and, or, not has the kind the expression
\* grammar matches for it, and the scanned tokens of '*set x 1 + 2' parse to a
\* statement whose expression is the Binary node of 1, + and 2.
C37_ScannedOperatorsParse ==
    /\ \A i \in OperatorTokens(tokens) :
           tokens[i].type = GrammarKind(tokens[i].value)
    /\ ParsedOnePlusTwo =>
           /\ ~parser.thrown
           /\ Len(parsed.statements) = 1
           /\ parsed.statements[1].kind = "SetVariable"
           /\ parsed.statements[1].expression
                  = [left |-> [value |-> parser.tokens[4]],
                     operator |-> parser.tokens[5],
                     right |-> [value |-> parser.tokens[6]]]

\* ---- C38
\* the last token of the run of tokens of the type and indent of token i that
\* starts at token i
RECURSIVE RunLast(_, _)
RunLast(stream, i) ==
    IF /\ i < Len(stream)
       /\ stream[i + 1].type = stream[i].type
       /\ stream[i + 1].indent = stream[i].indent
    THEN RunLast(stream, i + 1) ELSE i

\* the scene starts with a Prose or Comment token, and the statement that
\* starts with it is the one parse() has just pushed
FirstRunParsed ==
    /\ parser.tokens # <<>>
    /\ parser.tokens[2].type \in {"Prose", "Comment"}
    /\ ~parser.thrown
    /\ Len(parsed.statements) = 1

\* C38: a Prose statement (a Comment block) takes the whole run of Prose
\* (Comment) tokens of one indent that starts with its first token, and nothing
\* else: its content is the tokens of the run, the first one included, and the
\* cursor is left at the first token after the run.
C38_RunConsumedExactly ==
    FirstRunParsed =>
        /\ parsed.statements[1].kind = parser.tokens[2].type
        /\ parsed.statements[1].content
               = SubSeq(parser.tokens, 2, RunLast(parser.tokens, 2))
        /\ parser.current = RunLast(parser.tokens, 2)

\* ---- C39
\* the lines of the scene that are prose only: not blank, and with no '*' or
\* '#' that would start a token
ScannedProseLines ==
    {j \in 1..Len(sceneLines) :
        /\ trimString(sceneLines[j]) # <<>>
        /\ \A i \in 1..Len(sceneLines[j]) : ~isStartOfToken(sceneLines[j][i])}

\* the Prose tokens whose block started at line j or before it
ProseTokensFrom(j) ==
    {i \in 1..Len(tokens) :
        tokens[i].type = "Prose" /\ tokens[i].lineNumber <= j - 1}

\* C39: no prose is lost at the end of a scene: when scanScene has returned,
\* every prose line of the scene, the last ones before the end of the input
\* included, is in the content of a Prose token, which comes before SceneEnd.
C39_ProseFlushedAtEnd ==
    ScanReturned =>
        \A j \in ScannedProseLines :
            \E i \in ProseTokensFrom(j) :
                /\ i < Len(tokens)
                /\ indexOf(tokens[i].content, trimString(sceneLines[j])) # -1

\* ---- C40
Traversing == traversal.pc = "loop" /\ ~traversal.endingReached

\* an iteration leaves the locals of the loop a later token to look at, or one
\* more goto visited, or the loop ended
TraversalAdvances ==
    \/ traversal'.endingReached
    \/ traversal'.pc = "thrown"
    \/ traversal'.sceneIndex > traversal.sceneIndex
    \/ traversal'.flowIndex > traversal.flowIndex
    \/ Len(traversal'.visited) > Len(traversal.visited)

\* C40: the loop of execute terminates for every finite set of scenes: every
\* iteration advances flowIndex or sceneIndex, or marks a goto visited, or ends
\* the loop, and the loop does not stay at a Choice or FakeChoice token for
\* ever.
C40_TraversalTerminates ==
    /\ [][Traversing => TraversalAdvances]_vars
    /\ <>(traversal.pc \in {"returned", "thrown"})

====
